---- MODULE Spec2Model ----
(***************************************************************************)
(* State-machine model of the checkout widget in src/src/PaymentGateway.tsx *)
(* (React component PaymentGateway).  Every React state cell, every ref     *)
(* and the module-level initRequestCache is a variable; every handler,      *)
(* promise continuation and timer callback is an action.  All per-widget    *)
(* state is a function of the instance, the cache and the /initialize       *)
(* calls are process-wide.                                                  *)
(***************************************************************************)
EXTENDS Integers, Sequences, FiniteSets, TLC

\* ------------------------------------------------------------------ bounds
NumInst == 2          \* widget instances sharing the process
MaxCalls == 3         \* ids available for concurrently unsettled /initialize calls
MaxInFlight == 1      \* unsettled /pay, /verify-otp, /bank-details, /verify requests per instance

Inst == 1..NumInst
CallIds == 1..MaxCalls

\* ------------------------------------------------------- program constants
CooldownSecs == 60        \* setTransferVerifyCooldownSec(60)
RedirectSecs == 5         \* setCardRedirectCountdownSec(5)

Null == "null"            \* JavaScript null / a ref holding null is 0
Absent == "absent"        \* a field missing from a response (undefined)

\* ---------------------------------------------------------------- inputs
\* JavaScript values: undefined, null, a number (NaN among them) or an
\* object, which is a sequence of <<key, value>> in insertion order; key k
\* stands for the property name KeyNames[k].
NaN == -1
Undefined == [t |-> "undefined", n |-> 0, o |-> << >>]
JsNull == [t |-> "null", n |-> 0, o |-> << >>]
Num(n) == [t |-> "number", n |-> n, o |-> << >>]
Obj(entries) == [t |-> "object", n |-> 0, o |-> entries]
KeyNames == <<"a", "b", "c">>

\* the paymentTabs prop: an array of tab names, or no array at all
TabsArray(items) == [isArray |-> TRUE, items |-> items]
NoTabsArray == [isArray |-> FALSE, items |-> << >>]

\* The props a parent passes: same content in two key orders, and another
\* amount; paymentTabs and defaultTab left out.
PropsSet ==
    { [amount |-> 100, customData |-> Obj(<< <<1, Num(7)>>, <<2, Num(8)>> >>),
       paymentTabs |-> NoTabsArray, defaultTab |-> Absent],
      [amount |-> 100, customData |-> Obj(<< <<2, Num(8)>>, <<1, Num(7)>>, <<3, Undefined>> >>),
       paymentTabs |-> NoTabsArray, defaultTab |-> Absent],
      [amount |-> 200, customData |-> Obj(<< <<1, Num(7)>>, <<2, Num(8)>> >>),
       paymentTabs |-> NoTabsArray, defaultTab |-> Absent] }
References == {"R1"}
\* the reference prop of a later render
ReferenceProps == {"R1", "R2"}

\* The fields of an /initialize response body (after data?.data ?? data) the
\* transaction id is looked for in, in the order of the `||` chain; d_x is
\* the field x of the body's own `data` object.
TransactionIdFields ==
    << "d_transaction_id", "d_transactionId", "transaction_id", "transactionId",
       "d_id", "id", "d_reference", "reference" >>
NoInitPlain == [f \in {TransactionIdFields[k] : k \in 1..Len(TransactionIdFields)} |-> Absent]

\* /initialize response bodies: no id at all, or transaction_id and id
InitPlains ==
    { NoInitPlain,
      [NoInitPlain EXCEPT !["transaction_id"] = "tx_1", !["id"] = "id_1"] }

\* a value a field may carry: missing, the empty string, or its own non-empty value
Falsy == ""
FieldValue(f, kind) ==
    IF kind = "missing" THEN Absent ELSE IF kind = "empty" THEN Falsy ELSE "v_" \o f
\* the bodies with one field, or two fields next to each other in the chain, present
InitPlainsAll ==
    { [[NoInitPlain EXCEPT ![TransactionIdFields[j]] = FieldValue(TransactionIdFields[j], a)]
            EXCEPT ![TransactionIdFields[IF j + d <= Len(TransactionIdFields) THEN j + d ELSE j]] =
                FieldValue(TransactionIdFields[IF j + d <= Len(TransactionIdFields) THEN j + d ELSE j], b)] :
        j \in 1..Len(TransactionIdFields), d \in {0, 1},
        a \in {"missing", "empty", "value"}, b \in {"missing", "empty", "value"} }

Statuses == {"successful", "confirmed", "pending", "processing"}
NextActions == {Absent, "otp", "redirect"}
RedirectUrls == {Absent, "https://acs"}
\* /pay, /verify-otp and /verify response bodies
Plains == [status : Statuses, next_action : NextActions, redirect_url : RedirectUrls]
FlowKinds == {"pay", "verify-otp", "bank-details", "verify"}
\* what the user typed in the card form, as the validity of each field
\* (cardNumberValid, expiryValid, cvvValid, pinValid)
CardForms == [number : BOOLEAN, expiry : BOOLEAN, cvv : BOOLEAN, pin : BOOLEAN]
Otps == {"", "123456"}

\* ------------------------------------------------------------ messages
MsgInitFailed == "Unable to initialize payment, please try again."
MsgNoTransaction == "Transaction could not be initialized. Please retry."
MsgBadNumber == "Please enter a valid card number."
MsgBadExpiry == "Please enter a valid expiry date (MM/YY). Past dates are not allowed."
MsgBadPin == "Card PIN must be exactly 4 digits."
MsgNoOtp == "Please enter the OTP sent to the customer."
MsgNoRedirectUrl == "Redirect payment requires a redirect URL, but none was returned."
MsgPayReceived == "Card payment response received."
MsgPaySuccess == "Payment successful."
MsgPayFailed == "Payment failed. Please try again."
MsgRedirect == "Redirect required. You will be redirected in 5 seconds to continue payment."
MsgOtpDone == "Card verification completed."
MsgOtpFailed == "Could not verify OTP. Please try again."
MsgVerifyDone == "Verification completed."
MsgTransferOk == "Transfer confirmed successfully. Transaction is complete."
MsgVerifyFailed == "Could not verify transfer. Please try again."
MsgNoBank == "Bank account details were not returned by the server."
MsgBankOk == "Bank account generated successfully. Complete the transfer using the details below."
MsgBankFailed == "Could not generate bank details."

\* ------------------------------------------------------------- variables
VARIABLES
    life,                           \* "new" (not mounted yet), "mounted", "gone" (unmounted)
    props,                          \* the props the parent passes
    reference,                      \* the reference prop
    paymentReference,               \* useState(() => reference ?? generated)
    init,                           \* init.status
    transactionId,
    errorMsg, successMsg,
    isDismissed, overlay,
    active, cardStep, cardOtp,
    cardNextAction, cardSuccessData, cardRedirectUrl, cardRedirectCountdownSec,
    transferStep, bankDetails, transferVerifyCooldownSec, transferVerified,
    successCallbackTimerRef, cardRedirectTimerRef, cardRedirectCountdownTimerRef,
    timers,                         \* pending window timers created through the refs
    cooldownTimer,                  \* the interval owned by the cooldown effect
    initRequestCache,               \* requestKey -> unsettled call id (0: no entry)
    initCalls,                      \* unsettled /initialize network calls
    waiters,                        \* initPayment closures suspended at `await request`
    inflight,                       \* unsettled /pay, /verify-otp, /bank-details, /verify requests
    onErrorCalls,                   \* the errors the handler that ran last passed to onError
    input,                          \* the argument a validation or serialisation function is called with
    output,                         \* << >>, or the one result of that call
    last                            \* the last handler that ran on the instance (observation only)

instVars == <<life, props, reference, paymentReference, init, transactionId, errorMsg, successMsg>>
uiVars == <<isDismissed, overlay, active, cardStep, cardOtp>>
cardVars == <<cardNextAction, cardSuccessData, cardRedirectUrl, cardRedirectCountdownSec>>
transferVars == <<transferStep, bankDetails, transferVerifyCooldownSec, transferVerified>>
timerVars == <<successCallbackTimerRef, cardRedirectTimerRef, cardRedirectCountdownTimerRef,
               timers, cooldownTimer>>
sharedVars == <<initRequestCache, initCalls, waiters>>
flowVars == <<uiVars, cardVars, transferVars, timerVars, inflight>>
flowVarsButActive ==
    <<isDismissed, overlay, cardStep, cardOtp, cardVars, transferVars, timerVars, inflight>>
pureVars == <<input, output>>
vars == <<instVars, flowVars, sharedVars, onErrorCalls, last, pureVars>>

\* --------------------------------------------------- stable serialisation
\* the entries whose value is undefined are left out of the accumulator
RECURSIVE DropUndefined(_)
DropUndefined(obj) ==
    IF obj = << >> THEN << >>
    ELSE IF Head(obj)[2].t = "undefined" THEN DropUndefined(Tail(obj))
    ELSE <<Head(obj)>> \o DropUndefined(Tail(obj))

RECURSIVE InsertByKey(_, _)
InsertByKey(pair, sorted) ==
    IF sorted = << >> THEN <<pair>>
    ELSE IF pair[1] <= Head(sorted)[1] THEN <<pair>> \o sorted
    ELSE <<Head(sorted)>> \o InsertByKey(pair, Tail(sorted))

\* Object.keys(input).sort()
RECURSIVE SortByKey(_)
SortByKey(obj) ==
    IF obj = << >> THEN << >> ELSE InsertByKey(Head(obj), SortByKey(Tail(obj)))

\* normalize: an object is rebuilt with its keys sorted, its undefined-valued
\* keys dropped and its values normalized; any other value is itself
RECURSIVE normalize(_)
RECURSIVE NormalizeEntries(_)
NormalizeEntries(entries) ==
    IF entries = << >> THEN << >>
    ELSE << <<Head(entries)[1], normalize(Head(entries)[2])>> >> \o NormalizeEntries(Tail(entries))
normalize(value) ==
    IF value.t # "object" THEN value
    ELSE Obj(NormalizeEntries(DropUndefined(SortByKey(value.o))))

\* JSON.stringify: NaN and null are both written null
RECURSIVE JSONstringify(_)
RECURSIVE StringifyEntries(_)
StringifyEntries(entries) ==
    IF entries = << >> THEN ""
    ELSE "\"" \o KeyNames[Head(entries)[1]] \o "\":" \o JSONstringify(Head(entries)[2])
            \o (IF Tail(entries) = << >> THEN "" ELSE ",")
            \o StringifyEntries(Tail(entries))
JSONstringify(value) ==
    IF value.t = "object" THEN "{" \o StringifyEntries(DropUndefined(value.o)) \o "}"
    ELSE IF value.t = "number" /\ value.n # NaN THEN ToString(value.n)
    ELSE "null"

\* stableSerialize(value) of a value without cycles, dates, arrays or functions
stableSerialize(value) == JSONstringify(normalize(value))

\* stableSerialize of the customData values the props carry, computed once:
\* the result depends on the argument alone
SerializedCustomData ==
    {<<p.customData, stableSerialize(p.customData)>> : p \in PropsSet}
Serialized(customData) ==
    (CHOOSE pair \in SerializedCustomData : pair[1] = customData)[2]

customDataSignature(p) == Serialized(p.customData)

\* the dependency list of the initialization effect (retry is an action of its own)
InitDeps(p, ref) == <<p.amount, customDataSignature(p), ref>>

\* requestKey of initPayment: endpoint, public key and payload, serialised
requestKey(p, ref) ==
    <<"/initialize", p.amount, ref, Serialized(p.customData)>>

RequestKeys == {requestKey(p, r) : p \in PropsSet, r \in References}

\* JavaScript truthiness of a field value, and `a || b`
Truthy(v) == v # Absent /\ v # Falsy
Or(a, b) == IF Truthy(a) THEN a ELSE b

\* an extraction that prefers id to every other field
ExtractTransactionIdIdFirst(plain) ==
    Or(plain.d_id, Or(plain.id,
    Or(plain.d_transaction_id, Or(plain.d_transactionId,
    Or(plain.transaction_id, Or(plain.transactionId,
    Or(plain.d_reference, Or(plain.reference, Null))))))))

\* tId of initPayment: the `||` chain over the eight fields, ending in null
ExtractTransactionId(plain) ==
    Or(plain.d_transaction_id, Or(plain.d_transactionId,
    Or(plain.transaction_id, Or(plain.transactionId,
    Or(plain.d_id, Or(plain.id,
    Or(plain.d_reference, Or(plain.reference, Null))))))))

\* ----------------------------------------------------------------- helpers
Upd(f, i, v) == [f EXCEPT ![i] = v]

\* a React state setter: ignored once the component is unmounted
SetState(f, i, v) == IF life[i] = "mounted" THEN [f EXCEPT ![i] = v] ELSE f

IsSuccessStatus(s) == s \in {"successful", "success", "confirmed"}

NoPlain == [status |-> Absent, next_action |-> Absent, redirect_url |-> Absent]
Payloads == Plains \cup {NoPlain}

Min(S) == CHOOSE n \in S : \A m \in S : n <= m

\* window.setTimeout / setInterval hand out a handle no live holder knows
FreshTimerId(T, held) ==
    Min({n \in 1..(Cardinality(T) + Cardinality(held) + 1) :
            n \notin held /\ \A t \in T : t.id # n})

\* window.clearTimeout(handle) / window.clearInterval(handle)
ClearTimer(T, handle) == {t \in T : t.id # handle}

\* a lookup that never finds the entry
CacheLookupMiss(cache, key) == 0

\* initRequestCache.get(requestKey)
CacheLookup(cache, key) == cache[key]

\* a settled call whose entry stays in the cache
CacheKeepSettled(cache, c) == cache

\* a `.finally` that empties the cache
CacheClearSettled(cache, c) == [key \in DOMAIN cache |-> 0]

\* the `.finally` of the request: its entry is deleted if it is still the one cached
CacheDeleteSettled(cache, c) ==
    IF cache[c.key] = c.id THEN [cache EXCEPT ![c.key] = 0] ELSE cache

\* a continuation that does not look at its `mounted` flag
ClosureAppliesAlways(w) == TRUE

\* a continuation that returns after the await whether unmounted or not
ClosureAppliesNever(w) == FALSE

\* `if (!mounted) return;` after `await request`
ClosureApplies(w) == w.mounted

\* cleanup of the initialization effect: `mounted = false` in the closure of instance i
InitEffectCleanup(W, i) ==
    {[w EXCEPT !.mounted = IF w.inst = i THEN FALSE ELSE w.mounted] : w \in W}

\* a cleanup that leaves the success timer alone
UnmountCleanupRedirectOnly(T, i) ==
    ClearTimer(ClearTimer(T, cardRedirectTimerRef[i]), cardRedirectCountdownTimerRef[i])

\* the cleanup of the unmount effect: the three ref timers are cleared, the
\* refs keep their handles
UnmountCleanup(T, i) ==
    ClearTimer(ClearTimer(ClearTimer(T, successCallbackTimerRef[i]),
                          cardRedirectTimerRef[i]),
               cardRedirectCountdownTimerRef[i])

\* ------------------------------------------------------------------ tabs
\* Array.from(new Set(source)): the first occurrence of each element, in order
RECURSIVE Unique(_)
Unique(seq) ==
    IF seq = << >> THEN << >>
    ELSE LET front == Unique(SubSeq(seq, 1, Len(seq) - 1))
             item == seq[Len(seq)]
         IN IF \E k \in 1..Len(front) : front[k] = item THEN front ELSE Append(front, item)

Includes(seq, item) == \E k \in 1..Len(seq) : seq[k] = item

normalizePaymentTabs(tabs) ==
    LET source == IF tabs.isArray /\ Len(tabs.items) > 0 THEN tabs.items
                  ELSE <<"card", "transfer">>
        unique == SelectSeq(Unique(source), LAMBDA tab : tab = "card" \/ tab = "transfer")
    IN IF Len(unique) > 0 THEN unique ELSE <<"card", "transfer">>

availableTabs(p) == normalizePaymentTabs(p.paymentTabs)

preferredDefaultTab(p) ==
    IF p.defaultTab = "card" \/ p.defaultTab = "transfer" THEN p.defaultTab ELSE Null

\* the tab chosen when there is none yet, or when the one there is not enabled
ChooseTab(p) ==
    IF preferredDefaultTab(p) # Null /\ Includes(availableTabs(p), preferredDefaultTab(p))
    THEN preferredDefaultTab(p)
    ELSE availableTabs(p)[1]

\* the initializer of the active cell
ActiveInitialState(p) == ChooseTab(p)

\* the effect on [active, availableTabs, preferredDefaultTab]
ActiveTabEffectKeep(activeTab, p) == activeTab
ActiveTabEffect(activeTab, p) ==
    IF Includes(availableTabs(p), activeTab) THEN activeTab ELSE ChooseTab(p)

\* ---------------------------------------------------------------- Init
DefaultProps ==
    [amount |-> 100, customData |-> Obj(<< <<1, Num(7)>>, <<2, Num(8)>> >>),
     paymentTabs |-> NoTabsArray, defaultTab |-> Absent]
DefaultReference == "R1"

WidgetInit ==
    /\ life = [i \in Inst |-> "new"]
    /\ props = [i \in Inst |-> DefaultProps]
    /\ reference = [i \in Inst |-> DefaultReference]
    /\ paymentReference = [i \in Inst |-> DefaultReference]
    /\ init = [i \in Inst |-> "idle"]
    /\ transactionId = [i \in Inst |-> Null]
    /\ errorMsg = [i \in Inst |-> Null]
    /\ successMsg = [i \in Inst |-> Null]
    /\ isDismissed = [i \in Inst |-> FALSE]
    /\ overlay = [i \in Inst |-> FALSE]
    /\ active = [i \in Inst |-> "card"]
    /\ cardStep = [i \in Inst |-> 1]
    /\ cardOtp = [i \in Inst |-> ""]
    /\ cardNextAction = [i \in Inst |-> "none"]
    /\ cardSuccessData = [i \in Inst |-> NoPlain]
    /\ cardRedirectUrl = [i \in Inst |-> Null]
    /\ cardRedirectCountdownSec = [i \in Inst |-> 0]
    /\ transferStep = [i \in Inst |-> 1]
    /\ bankDetails = [i \in Inst |-> FALSE]
    /\ transferVerifyCooldownSec = [i \in Inst |-> 0]
    /\ transferVerified = [i \in Inst |-> FALSE]
    /\ successCallbackTimerRef = [i \in Inst |-> 0]
    /\ cardRedirectTimerRef = [i \in Inst |-> 0]
    /\ cardRedirectCountdownTimerRef = [i \in Inst |-> 0]
    /\ timers = [i \in Inst |-> {}]
    /\ cooldownTimer = [i \in Inst |-> FALSE]
    /\ initRequestCache = [k \in RequestKeys |-> 0]
    /\ initCalls = {}
    /\ waiters = {}
    /\ inflight = [i \in Inst |-> [k \in FlowKinds |-> 0]]
    /\ onErrorCalls = [i \in Inst |-> << >>]
    /\ last = [i \in Inst |-> "none"]

\* no function is being called on its own
Init == WidgetInit /\ input = << >> /\ output = << >>

\* ------------------------------------------------- initialization effect
\* `fetch(...)` creates a promise no holder knows: the identity given to it is
\* the first free one counted from the slot of its request key
KeySlot ==
    CHOOSE f \in [RequestKeys -> 1..Cardinality(RequestKeys)] :
        \A a, b \in RequestKeys : a # b => f[a] # f[b]

FreshCallId(free, key) ==
    CHOOSE c \in free :
        \A d \in free : (c - KeySlot[key]) % MaxCalls <= (d - KeySlot[key]) % MaxCalls

\* One run of the effect body for instance i with props p: the cleanup of the
\* previous run, then initPayment() up to `await request`.
InitPayment(i, p, ref) ==
    LET key == requestKey(p, ref)
        found == CacheLookup(initRequestCache, key)
        free == {c \in CallIds : \A x \in initCalls : x.id # c}
        request == IF found # 0 THEN found ELSE FreshCallId(free, key)
    IN  /\ found # 0 \/ free # {}
        /\ init' = Upd(init, i, "loading")
        /\ errorMsg' = Upd(errorMsg, i, Null)
        /\ successMsg' = Upd(successMsg, i, Null)
        /\ initCalls' = IF found # 0 THEN initCalls
                        ELSE initCalls \cup {[id |-> request, key |-> key]}
        /\ initRequestCache' = IF found # 0 THEN initRequestCache
                               ELSE [initRequestCache EXCEPT ![key] = request]
        /\ waiters' = InitEffectCleanup(waiters, i)
                        \cup {[inst |-> i, call |-> request, mounted |-> TRUE]}

\* the component is constructed and its effects run for the first time
Mount(i, p, ref) ==
    /\ life[i] = "new"
    /\ life' = Upd(life, i, "mounted")
    /\ props' = Upd(props, i, p)
    /\ reference' = Upd(reference, i, ref)
    /\ paymentReference' = Upd(paymentReference, i, ref)
    /\ InitPayment(i, p, ref)
    /\ active' = Upd(active, i, ActiveInitialState(p))
    /\ onErrorCalls' = Upd(onErrorCalls, i, << >>)
    /\ last' = Upd(last, i, "initPayment")
    /\ UNCHANGED <<transactionId, flowVarsButActive, pureVars>>

\* the parent re-renders the component with new props
SetProps(i, p) ==
    /\ life[i] = "mounted"
    /\ p # props[i]
    /\ props' = Upd(props, i, p)
    /\ active' = Upd(active, i, ActiveTabEffect(active[i], p))
    /\ UNCHANGED <<life, reference, paymentReference, transactionId, flowVarsButActive,
                   pureVars>>
    /\ IF InitDeps(p, paymentReference[i]) # InitDeps(props[i], paymentReference[i])
       THEN /\ InitPayment(i, p, paymentReference[i])
            /\ onErrorCalls' = Upd(onErrorCalls, i, << >>)
            /\ last' = Upd(last, i, "initPayment")
       ELSE /\ UNCHANGED <<init, errorMsg, successMsg, sharedVars, onErrorCalls>>
            /\ last' = IF ActiveTabEffect(active[i], p) # active[i]
                       THEN Upd(last, i, "activeTab") ELSE last

\* the parent re-renders the component with another reference prop: the
\* initializer of the paymentReference cell does not run again
SetReference(i, ref) ==
    /\ life[i] = "mounted"
    /\ ref # reference[i]
    /\ reference' = Upd(reference, i, ref)
    /\ UNCHANGED <<life, props, paymentReference, init, transactionId, errorMsg, successMsg,
                   flowVars, sharedVars, onErrorCalls, last, pureVars>>

\* the Retry button of the error screen: setInit(idle), initRetryTick + 1, effect re-run
Retry(i) ==
    /\ life[i] = "mounted"
    /\ init[i] = "error"
    /\ ~isDismissed[i]
    /\ InitPayment(i, props[i], paymentReference[i])
    /\ onErrorCalls' = Upd(onErrorCalls, i, << >>)
    /\ last' = Upd(last, i, "retry")
    /\ UNCHANGED <<life, props, reference, paymentReference, transactionId, flowVars, pureVars>>

InitOutcomes == [ok : {TRUE}, plain : InitPlains] \cup [ok : {FALSE}, plain : {NoPlain}]
InitOutcomesAll == [ok : {TRUE}, plain : InitPlainsAll] \cup [ok : {FALSE}, plain : {NoPlain}]

\* The /initialize call c settles.  In one run of the microtask queue the
\* `.finally` callback removes the cache entry and every closure awaiting the
\* request resumes.
Settle(c, o) ==
    LET resumed == {w \in waiters : w.call = c.id}
        applying == {w.inst : w \in {x \in resumed : ClosureApplies(x)}}
        stale == {w.inst : w \in resumed} \ applying
        live == {i \in applying : life[i] = "mounted"}
    IN  /\ c \in initCalls
        /\ initCalls' = initCalls \ {c}
        /\ initRequestCache' = CacheDeleteSettled(initRequestCache, c)
        /\ waiters' = waiters \ resumed
        /\ transactionId' = [i \in Inst |->
                IF i \in live /\ o.ok THEN ExtractTransactionId(o.plain) ELSE transactionId[i]]
        /\ init' = [i \in Inst |->
                IF i \in live THEN (IF o.ok THEN "success" ELSE "error") ELSE init[i]]
        /\ errorMsg' = [i \in Inst |->
                IF i \in live /\ ~o.ok THEN MsgInitFailed ELSE errorMsg[i]]
        /\ onErrorCalls' = [i \in Inst |->
                IF i \in applying \cup stale THEN << >> ELSE onErrorCalls[i]]
        /\ last' = [i \in Inst |->
                IF i \in applying THEN "init:applied"
                ELSE IF i \in stale THEN "init:stale"
                ELSE last[i]]
        /\ UNCHANGED <<life, props, reference, paymentReference, successMsg, flowVars, pureVars>>

\* unmount: the cleanups of all effects run and the component's state cells
\* are destroyed; the refs, the closures and the window timers live on
Unmount(i) ==
    /\ life[i] = "mounted"
    /\ life' = Upd(life, i, "gone")
    /\ waiters' = InitEffectCleanup(waiters, i)
    /\ timers' = Upd(timers, i, UnmountCleanup(timers[i], i))
    /\ cooldownTimer' = Upd(cooldownTimer, i, FALSE)
    /\ onErrorCalls' = Upd(onErrorCalls, i, << >>)
    /\ last' = Upd(last, i, "unmount")
    /\ props' = Upd(props, i, DefaultProps)
    /\ reference' = Upd(reference, i, DefaultReference)
    /\ paymentReference' = Upd(paymentReference, i, DefaultReference)
    /\ init' = Upd(init, i, "idle")
    /\ transactionId' = Upd(transactionId, i, Null)
    /\ errorMsg' = Upd(errorMsg, i, Null)
    /\ successMsg' = Upd(successMsg, i, Null)
    /\ isDismissed' = Upd(isDismissed, i, FALSE)
    /\ overlay' = Upd(overlay, i, FALSE)
    /\ active' = Upd(active, i, "card")
    /\ cardStep' = Upd(cardStep, i, 1)
    /\ cardOtp' = Upd(cardOtp, i, "")
    /\ cardNextAction' = Upd(cardNextAction, i, "none")
    /\ cardSuccessData' = Upd(cardSuccessData, i, NoPlain)
    /\ cardRedirectUrl' = Upd(cardRedirectUrl, i, Null)
    /\ cardRedirectCountdownSec' = Upd(cardRedirectCountdownSec, i, 0)
    /\ transferStep' = Upd(transferStep, i, 1)
    /\ bankDetails' = Upd(bankDetails, i, FALSE)
    /\ transferVerifyCooldownSec' = Upd(transferVerifyCooldownSec, i, 0)
    /\ transferVerified' = Upd(transferVerified, i, FALSE)
    /\ UNCHANGED <<successCallbackTimerRef, cardRedirectTimerRef,
                   cardRedirectCountdownTimerRef, initRequestCache, initCalls, inflight,
                   pureVars>>

\* ------------------------------------------- the shared-cache specification
\* the outcomes of /initialize drawn here: a transaction id, or a failure
SharedOutcomes == {o \in InitOutcomes : o.ok => o.plain.transaction_id # Absent}

SharedNext ==
    \/ \E i \in Inst, p \in PropsSet, ref \in References : Mount(i, p, ref)
    \/ \E i \in Inst, p \in PropsSet : SetProps(i, p)
    \/ \E i \in Inst : Retry(i)
    \/ \E c \in initCalls, o \in SharedOutcomes : Settle(c, o)
    \/ \E i \in Inst : Unmount(i)

SpecShared == Init /\ [][SharedNext]_vars

\* ---------------------------------------------------- the payment flow
\* The cells, refs and timers of instance i as one record: a handler is a
\* function from this record to the record it leaves behind.
Cells(i) ==
    [ errorMsg |-> errorMsg[i], successMsg |-> successMsg[i],
      isDismissed |-> isDismissed[i], overlay |-> overlay[i],
      active |-> active[i], cardStep |-> cardStep[i], cardOtp |-> cardOtp[i],
      cardNextAction |-> cardNextAction[i], cardSuccessData |-> cardSuccessData[i],
      cardRedirectUrl |-> cardRedirectUrl[i],
      cardRedirectCountdownSec |-> cardRedirectCountdownSec[i],
      transferStep |-> transferStep[i], bankDetails |-> bankDetails[i],
      transferVerifyCooldownSec |-> transferVerifyCooldownSec[i],
      transferVerified |-> transferVerified[i],
      successCallbackTimerRef |-> successCallbackTimerRef[i],
      cardRedirectTimerRef |-> cardRedirectTimerRef[i],
      cardRedirectCountdownTimerRef |-> cardRedirectCountdownTimerRef[i],
      timers |-> timers[i],
      inflight |-> inflight[i],
      transactionId |-> transactionId[i],
      onErrorCalls |-> << >>,
      late |-> life[i] # "mounted" ]

\* an effect that runs only when the cooldown is set, not after each tick
CooldownEffectOnce(seconds) == seconds = CooldownSecs

\* the effect on transferVerifyCooldownSec: its cleanup clears the interval,
\* its body starts one while the cooldown is positive
CooldownEffect(seconds) == seconds > 0

\* Write the record back.  State setters are ignored after unmount; refs,
\* timers and requests are not React state and change regardless.  The
\* re-render that follows runs the cooldown effect.
Commit(i, n, op) ==
    /\ errorMsg' = SetState(errorMsg, i, n.errorMsg)
    /\ successMsg' = SetState(successMsg, i, n.successMsg)
    /\ isDismissed' = SetState(isDismissed, i, n.isDismissed)
    /\ overlay' = SetState(overlay, i, n.overlay)
    /\ active' = SetState(active, i, n.active)
    /\ cardStep' = SetState(cardStep, i, n.cardStep)
    /\ cardOtp' = SetState(cardOtp, i, n.cardOtp)
    /\ cardNextAction' = SetState(cardNextAction, i, n.cardNextAction)
    /\ cardSuccessData' = SetState(cardSuccessData, i, n.cardSuccessData)
    /\ cardRedirectUrl' = SetState(cardRedirectUrl, i, n.cardRedirectUrl)
    /\ cardRedirectCountdownSec' =
            SetState(cardRedirectCountdownSec, i, n.cardRedirectCountdownSec)
    /\ transferStep' = SetState(transferStep, i, n.transferStep)
    /\ bankDetails' = SetState(bankDetails, i, n.bankDetails)
    /\ transferVerifyCooldownSec' =
            SetState(transferVerifyCooldownSec, i, n.transferVerifyCooldownSec)
    /\ transferVerified' = SetState(transferVerified, i, n.transferVerified)
    /\ successCallbackTimerRef' = Upd(successCallbackTimerRef, i, n.successCallbackTimerRef)
    /\ cardRedirectTimerRef' = Upd(cardRedirectTimerRef, i, n.cardRedirectTimerRef)
    /\ cardRedirectCountdownTimerRef' =
            Upd(cardRedirectCountdownTimerRef, i, n.cardRedirectCountdownTimerRef)
    /\ timers' = Upd(timers, i, n.timers)
    /\ cooldownTimer' = IF life[i] = "mounted"
                        THEN Upd(cooldownTimer, i, CooldownEffect(n.transferVerifyCooldownSec))
                        ELSE cooldownTimer
    /\ inflight' = Upd(inflight, i, n.inflight)
    /\ onErrorCalls' = Upd(onErrorCalls, i, n.onErrorCalls)
    /\ last' = Upd(last, i, op)
    /\ UNCHANGED <<life, props, reference, paymentReference, init, transactionId, sharedVars,
                   pureVars>>

HeldHandles(s) ==
    {s.successCallbackTimerRef, s.cardRedirectTimerRef, s.cardRedirectCountdownTimerRef} \ {0}

\* a reset that clears the one-shot and leaves the 1-second interval running
clearCardRedirectTimersOneShotOnly(s) ==
    [s EXCEPT !.timers = ClearTimer(@, s.cardRedirectTimerRef),
              !.cardRedirectTimerRef = 0,
              !.cardRedirectCountdownTimerRef = 0,
              !.cardRedirectCountdownSec = 0]

\* clearTimeout and clearInterval through the two refs, which are nulled
clearCardRedirectTimers(s) ==
    [s EXCEPT !.timers = ClearTimer(ClearTimer(@, s.cardRedirectTimerRef),
                                    s.cardRedirectCountdownTimerRef),
              !.cardRedirectTimerRef = 0,
              !.cardRedirectCountdownTimerRef = 0,
              !.cardRedirectCountdownSec = 0]

\* a reset of the cells that leaves the redirect timers alone
resetCardAuthFlowCellsOnly(s) ==
    [s EXCEPT
        !.cardRedirectCountdownSec = 0,
        !.cardNextAction = "none",
        !.cardSuccessData = NoPlain,
        !.cardRedirectUrl = Null,
        !.cardOtp = ""]

resetCardAuthFlow(s) ==
    [clearCardRedirectTimers(s) EXCEPT
        !.cardNextAction = "none",
        !.cardSuccessData = NoPlain,
        !.cardRedirectUrl = Null,
        !.cardOtp = ""]

\* a success state that keeps the typed code
showCardSuccessStateKeepOtp(s, payload, message) ==
    [clearCardRedirectTimers(s) EXCEPT
        !.cardNextAction = "success",
        !.cardSuccessData = payload,
        !.cardRedirectUrl = Null,
        !.successMsg = message]

showCardSuccessState(s, payload, message) ==
    [clearCardRedirectTimers(s) EXCEPT
        !.cardNextAction = "success",
        !.cardSuccessData = payload,
        !.cardOtp = "",
        !.cardRedirectUrl = Null,
        !.successMsg = message]

\* clearTimeout of the pending success timer, then a new setTimeout whose
\* handle replaces the old one in the ref
queueSuccessCallback(s, payload) ==
    LET kept == IF s.successCallbackTimerRef # 0
                THEN ClearTimer(s.timers, s.successCallbackTimerRef)
                ELSE s.timers
        handle == FreshTimerId(kept, HeldHandles(s) \ {s.successCallbackTimerRef})
    IN  [s EXCEPT
            !.timers = kept \cup {[id |-> handle, kind |-> "success",
                                   payload |-> payload, late |-> s.late]},
            !.successCallbackTimerRef = handle]

startRedirectCountdown(s, url) ==
    LET c == clearCardRedirectTimers(s)
        tick == FreshTimerId(c.timers, HeldHandles(c))
        shot == FreshTimerId(c.timers, HeldHandles(c) \cup {tick})
    IN  [c EXCEPT
            !.cardNextAction = "redirect",
            !.cardRedirectUrl = url,
            !.cardRedirectCountdownSec = RedirectSecs,
            !.successMsg = MsgRedirect,
            !.cardRedirectCountdownTimerRef = tick,
            !.cardRedirectTimerRef = shot,
            !.timers = c.timers \cup
                {[id |-> tick, kind |-> "countdown", payload |-> NoPlain, late |-> s.late],
                 [id |-> shot, kind |-> "redirect",
                  payload |-> [NoPlain EXCEPT !.redirect_url = url], late |-> s.late]}]

InFlightCount(s) ==
    s.inflight["pay"] + s.inflight["verify-otp"] + s.inflight["bank-details"] + s.inflight["verify"]

\* client.post(path, ...): one more unsettled request
Post(s, kind) == [s EXCEPT !.inflight[kind] = @ + 1]
\* the awaited request settles
Settled(s, kind) == [s EXCEPT !.inflight[kind] = @ - 1]

\* onError?.(err) in a catch block
onError(s, err) == [s EXCEPT !.onErrorCalls = Append(@, err)]

\* setOverlay(true); setErrorMsg(null); setSuccessMsg(null)
BeginRequest(s) == [s EXCEPT !.overlay = TRUE, !.errorMsg = Null, !.successMsg = Null]
\* finally { setOverlay(false) }
Finally(s) == [s EXCEPT !.overlay = FALSE]

\* ------------------------------------------------------------ handlers
cardStepOneValid(f) == f.number /\ f.expiry /\ f.cvv
\* a Pay Now button that does not look at the CVV
canSubmitCardNoCvv(f) == f.number /\ f.expiry /\ f.pin

canSubmitCard(f) == cardStepOneValid(f) /\ f.pin

\* a submit that looks at the PIN first
submitPinFirst(s, f) ==
    IF ~f.pin THEN [s EXCEPT !.errorMsg = MsgBadPin]
    ELSE IF ~f.number THEN [s EXCEPT !.errorMsg = MsgBadNumber]
    ELSE IF ~f.expiry THEN [s EXCEPT !.errorMsg = MsgBadExpiry]
    ELSE Post(resetCardAuthFlow(BeginRequest(s)), "pay")

\* submit("card") up to `await client.post("/pay", payload)`
submit(s, f) ==
    IF ~f.number THEN [s EXCEPT !.errorMsg = MsgBadNumber]
    ELSE IF ~f.expiry THEN [s EXCEPT !.errorMsg = MsgBadExpiry]
    ELSE IF ~f.pin THEN [s EXCEPT !.errorMsg = MsgBadPin]
    ELSE Post(resetCardAuthFlow(BeginRequest(s)), "pay")

\* a continuation that looks at the status before the next action
PayBranchStatusFirst(resp) ==
    IF ~resp.ok THEN "error"
    ELSE IF IsSuccessStatus(resp.plain.status) THEN "success"
    ELSE IF resp.plain.next_action = "otp" THEN "otp"
    ELSE IF resp.plain.next_action = "redirect"
         THEN (IF resp.plain.redirect_url = Absent THEN "nourl" ELSE "redirect")
    ELSE IF resp.plain.status = "pending" THEN "pending"
    ELSE "other"

\* the branch of submit's continuation a /pay response takes
PayBranch(resp) ==
    IF ~resp.ok THEN "error"
    ELSE IF resp.plain.next_action = "otp" THEN "otp"
    ELSE IF resp.plain.next_action = "redirect"
         THEN (IF resp.plain.redirect_url = Absent THEN "nourl" ELSE "redirect")
    ELSE IF IsSuccessStatus(resp.plain.status) THEN "success"
    ELSE IF resp.plain.status = "pending" THEN "pending"
    ELSE "other"

\* submit("card") from the response of /pay on
submitContinuation(s0, resp) ==
    LET s == Settled(s0, "pay")
        plain == resp.plain
        b == PayBranch(resp)
    IN  Finally(
          CASE b = "error" -> onError([s EXCEPT !.errorMsg = MsgPayFailed], resp)
            [] b = "otp" -> [s EXCEPT !.cardNextAction = "otp", !.cardOtp = "",
                                      !.successMsg = MsgPayReceived]
            [] b = "nourl" -> [s EXCEPT !.errorMsg = MsgNoRedirectUrl]
            [] b = "redirect" -> startRedirectCountdown(s, plain.redirect_url)
            [] b = "success" ->
                    queueSuccessCallback(showCardSuccessState(s, plain, MsgPaySuccess), plain)
            [] b = "pending" -> [s EXCEPT !.errorMsg = MsgPayReceived]
            [] OTHER -> queueSuccessCallback([s EXCEPT !.successMsg = MsgPaySuccess], plain))

\* verifyCardOtp up to `await client.post("/verify-otp", ...)`
verifyCardOtp(s) ==
    IF s.transactionId = Null THEN [s EXCEPT !.errorMsg = MsgNoTransaction]
    ELSE IF s.cardOtp = "" THEN [s EXCEPT !.errorMsg = MsgNoOtp]
    ELSE Post(BeginRequest(s), "verify-otp")

\* a continuation that does not require the redirect URL
OtpBranchAnyRedirect(resp) ==
    IF ~resp.ok THEN "error"
    ELSE IF resp.plain.next_action = "redirect" THEN "redirect"
    ELSE IF resp.plain.next_action = "otp" THEN "otp"
    ELSE IF IsSuccessStatus(resp.plain.status) THEN "success"
    ELSE IF resp.plain.status = "pending" THEN "pending"
    ELSE "other"

\* a continuation that treats "pending" as any other status
OtpBranchPendingNeutral(resp) ==
    IF ~resp.ok THEN "error"
    ELSE IF resp.plain.next_action = "redirect"
         THEN (IF resp.plain.redirect_url = Absent THEN "nourl" ELSE "redirect")
    ELSE IF resp.plain.next_action = "otp" THEN "otp"
    ELSE IF IsSuccessStatus(resp.plain.status) THEN "success"
    ELSE "other"

\* the branch of verifyCardOtp's continuation a /verify-otp response takes
OtpBranch(resp) ==
    IF ~resp.ok THEN "error"
    ELSE IF resp.plain.next_action = "redirect"
         THEN (IF resp.plain.redirect_url = Absent THEN "nourl" ELSE "redirect")
    ELSE IF resp.plain.next_action = "otp" THEN "otp"
    ELSE IF IsSuccessStatus(resp.plain.status) THEN "success"
    ELSE IF resp.plain.status = "pending" THEN "pending"
    ELSE "other"

verifyCardOtpContinuation(s0, resp) ==
    LET s == Settled(s0, "verify-otp")
        plain == resp.plain
        b == OtpBranch(resp)
    IN  Finally(
          CASE b = "error" -> onError([s EXCEPT !.errorMsg = MsgOtpFailed], resp)
            [] b = "nourl" -> [s EXCEPT !.errorMsg = MsgNoRedirectUrl]
            [] b = "redirect" -> startRedirectCountdown(s, plain.redirect_url)
            [] b = "otp" -> [s EXCEPT !.cardNextAction = "otp", !.successMsg = MsgOtpDone]
            [] b = "success" ->
                    queueSuccessCallback(showCardSuccessState(s, plain, MsgPaySuccess), plain)
            [] b = "pending" -> [s EXCEPT !.cardNextAction = "otp", !.errorMsg = MsgOtpDone]
            [] OTHER -> [s EXCEPT !.errorMsg = MsgOtpDone])

\* a continuation that treats "pending" as any other status
VerifyBranchPendingNeutral(resp) ==
    IF ~resp.ok THEN "error"
    ELSE IF IsSuccessStatus(resp.plain.status) THEN "success"
    ELSE "other"

\* verifyTransfer without its two early returns
verifyTransferUnguarded(s) ==
    IF s.transactionId = Null THEN [s EXCEPT !.errorMsg = MsgNoTransaction]
    ELSE Post(BeginRequest(s), "verify")

\* verifyTransfer up to `await client.post("/verify", ...)`
verifyTransfer(s) ==
    IF s.transferVerified THEN s
    ELSE IF s.transferVerifyCooldownSec > 0 THEN s
    ELSE IF s.transactionId = Null THEN [s EXCEPT !.errorMsg = MsgNoTransaction]
    ELSE Post(BeginRequest(s), "verify")

VerifyBranch(resp) ==
    IF ~resp.ok THEN "error"
    ELSE IF IsSuccessStatus(resp.plain.status) THEN "success"
    ELSE IF resp.plain.status = "pending" THEN "pending"
    ELSE "other"

\* the success timer armed inline by verifyTransfer
armTransferSuccessTimer(s, payload) ==
    LET kept == IF s.successCallbackTimerRef # 0
                THEN ClearTimer(s.timers, s.successCallbackTimerRef)
                ELSE s.timers
        handle == FreshTimerId(kept, HeldHandles(s) \ {s.successCallbackTimerRef})
    IN  [s EXCEPT
            !.timers = kept \cup {[id |-> handle, kind |-> "success",
                                   payload |-> payload, late |-> s.late]},
            !.successCallbackTimerRef = handle]

verifyTransferContinuation(s0, resp) ==
    LET s == Settled(s0, "verify")
        b == VerifyBranch(resp)
    IN  Finally(
          CASE b = "error" -> onError([s EXCEPT !.errorMsg = MsgVerifyFailed], resp)
            [] b = "success" ->
                    armTransferSuccessTimer(
                        [s EXCEPT !.transferVerified = TRUE,
                                  !.transferVerifyCooldownSec = 0,
                                  !.successMsg = MsgTransferOk],
                        resp.plain)
            [] b = "pending" -> [s EXCEPT !.errorMsg = MsgVerifyDone,
                                          !.transferVerifyCooldownSec = CooldownSecs]
            [] OTHER -> [s EXCEPT !.errorMsg = MsgVerifyDone])

\* proceedBank without its transaction id check
proceedBankUnchecked(s) ==
    Post([BeginRequest(s) EXCEPT !.transferVerified = FALSE,
                                 !.transferVerifyCooldownSec = 0],
         "bank-details")

\* proceedBank up to `await client.post("/bank-details", ...)`
proceedBank(s) ==
    IF s.transactionId = Null THEN [s EXCEPT !.errorMsg = MsgNoTransaction]
    ELSE Post([BeginRequest(s) EXCEPT !.transferVerified = FALSE,
                                      !.transferVerifyCooldownSec = 0],
              "bank-details")

BankOutcomes == {"details", "nodetails", "error"}

proceedBankContinuation(s0, outcome) ==
    LET s == Settled(s0, "bank-details")
    IN  Finally(
          CASE outcome = "error" -> [s EXCEPT !.errorMsg = MsgBankFailed]
            [] outcome = "nodetails" -> [s EXCEPT !.errorMsg = MsgNoBank]
            [] OTHER -> [s EXCEPT !.bankDetails = TRUE, !.transferStep = 2,
                                  !.successMsg = MsgBankOk])

Responses == [ok : {TRUE}, plain : Plains] \cup [ok : {FALSE}, plain : {NoPlain}]

\* ------------------------------------------------------------- rendering
\* the main screen is rendered: initialization succeeded and not dismissed
\* a panel rendered whatever the status of the initialization
ReadyWhileMounted(i) == life[i] = "mounted" /\ ~isDismissed[i]
Ready(i) == life[i] = "mounted" /\ init[i] = "success" /\ ~isDismissed[i]
CardStep1Shown(i) == Ready(i) /\ active[i] = "card" /\ cardStep[i] = 1
CardStep2Shown(i, panel) ==
    Ready(i) /\ active[i] = "card" /\ cardStep[i] = 2 /\ cardNextAction[i] = panel
TransferStep1Shown(i) == Ready(i) /\ active[i] = "transfer" /\ transferStep[i] = 1
TransferStep2Shown(i) ==
    Ready(i) /\ active[i] = "transfer" /\ transferStep[i] = 2 /\ bankDetails[i]

\* a handler may start a request only while the bound on unsettled requests allows
Run(i, n, op) == InFlightCount(n) <= MaxInFlight /\ Commit(i, n, op)

Sent(s, n) == IF InFlightCount(n) > InFlightCount(s) THEN "sent" ELSE "refused"

\* ---------------------------------------------------------- user actions
\* Escape: setIsDismissed(true); onClose()
Dismiss(i) ==
    /\ life[i] = "mounted"
    /\ ~isDismissed[i]
    /\ Commit(i, [Cells(i) EXCEPT !.isDismissed = TRUE], "dismiss")

\* the Card Payment / Bank Transfer buttons of the method list, one for each
\* enabled tab
TabClick(i, tab) ==
    /\ Ready(i)
    /\ Includes(availableTabs(props[i]), tab)
    /\ LET r == resetCardAuthFlow(Cells(i))
           n == IF tab = "card"
                THEN [r EXCEPT !.active = "card", !.cardStep = 1,
                               !.errorMsg = Null, !.successMsg = Null]
                ELSE [r EXCEPT !.active = "transfer", !.transferStep = 1,
                               !.errorMsg = Null, !.successMsg = Null]
       IN Commit(i, n, "tab")

\* Continue: enabled once number, expiry and CVV typed in step 1 are valid
Continue(i) ==
    /\ CardStep1Shown(i)
    /\ \E f \in CardForms : cardStepOneValid(f)
    /\ Commit(i, [Cells(i) EXCEPT !.cardStep = 2], "continue")

\* Back, in the card form of step 2 and in the OTP panel
Back(i) ==
    /\ CardStep2Shown(i, "none") \/ CardStep2Shown(i, "otp")
    /\ Commit(i, [resetCardAuthFlow(Cells(i)) EXCEPT !.cardStep = 1], "back")

\* submit("card") is called with the form f typed in the step-2 card form
SubmitCall(i, f) ==
    /\ CardStep2Shown(i, "none")
    /\ LET n == submit(Cells(i), f)
       IN Run(i, n, "submit:" \o Sent(Cells(i), n))

\* Pay Now: the button is disabled unless canSubmitCard
PayNow(i, f) == canSubmitCard(f) /\ SubmitCall(i, f)

TypeOtp(i, otp) ==
    /\ CardStep2Shown(i, "otp")
    /\ otp # cardOtp[i]
    /\ Commit(i, [Cells(i) EXCEPT !.cardOtp = otp], "typeOtp")

VerifyCardOtpCall(i) ==
    /\ CardStep2Shown(i, "otp")
    /\ LET n == verifyCardOtp(Cells(i))
       IN Run(i, n, "verifyCardOtp:" \o Sent(Cells(i), n))

\* Verify OTP: the button is disabled while the OTP input is empty
VerifyOtp(i) == cardOtp[i] # "" /\ VerifyCardOtpCall(i)

\* Redirect Now: window.location.assign(cardRedirectUrl); the widget keeps
\* running for as long as the document is not replaced
RedirectNow(i) ==
    /\ CardStep2Shown(i, "redirect")
    /\ cardRedirectUrl[i] # Null
    /\ Commit(i, Cells(i), "navigate:manual")

CancelRedirect(i) ==
    /\ CardStep2Shown(i, "redirect")
    /\ Commit(i, [resetCardAuthFlow(Cells(i)) EXCEPT !.successMsg = Null], "cancelRedirect")

\* Generate Bank Account
GenerateBank(i) ==
    /\ TransferStep1Shown(i)
    /\ LET n == proceedBank(Cells(i))
       IN Run(i, n, "proceedBank:" \o Sent(Cells(i), n))

VerifyTransferCall(i) ==
    /\ TransferStep2Shown(i)
    /\ LET n == verifyTransfer(Cells(i))
       IN Run(i, n, "verifyTransfer:" \o Sent(Cells(i), n))

\* "I have made the transfer": rendered while not verified, disabled during the cooldown
VerifyTransferClick(i) ==
    /\ ~transferVerified[i]
    /\ transferVerifyCooldownSec[i] = 0
    /\ VerifyTransferCall(i)

\* ----------------------------------------------------- gateway responses
PayResponse(i, resp) ==
    /\ inflight[i]["pay"] > 0
    /\ Commit(i, submitContinuation(Cells(i), resp), "pay:" \o PayBranch(resp))

OtpResponse(i, resp) ==
    /\ inflight[i]["verify-otp"] > 0
    /\ Commit(i, verifyCardOtpContinuation(Cells(i), resp), "otp:" \o OtpBranch(resp))

VerifyResponse(i, resp) ==
    /\ inflight[i]["verify"] > 0
    /\ Commit(i, verifyTransferContinuation(Cells(i), resp), "verify:" \o VerifyBranch(resp))

BankResponse(i, outcome) ==
    /\ inflight[i]["bank-details"] > 0
    /\ Commit(i, proceedBankContinuation(Cells(i), outcome), "bank:" \o outcome)

\* ------------------------------------------------------- timer callbacks
\* onSuccess?.(payload); successCallbackTimerRef.current = null
SuccessTimerFire(i, t) ==
    /\ t \in timers[i]
    /\ t.kind = "success"
    /\ Commit(i, [Cells(i) EXCEPT !.timers = @ \ {t}, !.successCallbackTimerRef = 0],
              "onSuccess")

\* window.location.assign(url); the one-shot is spent, its handle stays in the ref
RedirectTimerFire(i, t) ==
    /\ t \in timers[i]
    /\ t.kind = "redirect"
    /\ Commit(i, [Cells(i) EXCEPT !.timers = @ \ {t}], "navigate:auto")

\* a tick without the floor
DecrementUnfloored(seconds) == seconds - 1
Decrement(seconds) == IF seconds <= 1 THEN 0 ELSE seconds - 1

\* the 1-second interval of the redirect countdown
RedirectTick(i, t) ==
    /\ t \in timers[i]
    /\ t.kind = "countdown"
    /\ Commit(i, [Cells(i) EXCEPT !.cardRedirectCountdownSec = Decrement(@)], "redirectTick")

\* the 1-second interval of the cooldown effect
CooldownTick(i) ==
    /\ cooldownTimer[i]
    /\ Commit(i, [Cells(i) EXCEPT !.transferVerifyCooldownSec = Decrement(@)], "cooldownTick")

\* ------------------------------------------------- the widget specification
FlowInst == {1}

WidgetNext(i) ==
    \/ Mount(i, DefaultProps, DefaultReference)
    \/ \E c \in initCalls, o \in InitOutcomes : Settle(c, o)
    \/ Retry(i)
    \/ Unmount(i)
    \/ Dismiss(i)
    \/ \E tab \in {"card", "transfer"} : TabClick(i, tab)
    \/ Continue(i)
    \/ Back(i)
    \/ \E f \in CardForms : PayNow(i, f)
    \/ \E otp \in Otps : TypeOtp(i, otp)
    \/ VerifyOtp(i)
    \/ RedirectNow(i)
    \/ CancelRedirect(i)
    \/ GenerateBank(i)
    \/ VerifyTransferClick(i)
    \/ \E resp \in Responses : PayResponse(i, resp)
    \/ \E resp \in Responses : OtpResponse(i, resp)
    \/ \E resp \in Responses : VerifyResponse(i, resp)
    \/ \E outcome \in BankOutcomes : BankResponse(i, outcome)
    \/ \E t \in timers[i] : SuccessTimerFire(i, t)
    \/ \E t \in timers[i] : RedirectTimerFire(i, t)
    \/ \E t \in timers[i] : RedirectTick(i, t)
    \/ CooldownTick(i)

Next == \E i \in FlowInst : WidgetNext(i)

Spec == Init /\ [][Next]_vars

\* the card flow of one widget with fixed props
CardNext(i) ==
    \/ Mount(i, DefaultProps, DefaultReference)
    \/ \E c \in initCalls, o \in InitOutcomes : Settle(c, o)
    \/ Retry(i)
    \/ Unmount(i)
    \/ Dismiss(i)
    \/ \E tab \in {"card", "transfer"} : TabClick(i, tab)
    \/ Continue(i)
    \/ Back(i)
    \/ \E f \in CardForms : PayNow(i, f)
    \/ \E otp \in Otps : TypeOtp(i, otp)
    \/ VerifyOtp(i)
    \/ RedirectNow(i)
    \/ CancelRedirect(i)
    \/ \E resp \in Responses : PayResponse(i, resp)
    \/ \E resp \in Responses : OtpResponse(i, resp)
    \/ \E t \in timers[i] : SuccessTimerFire(i, t)
    \/ \E t \in timers[i] : RedirectTimerFire(i, t)
    \/ \E t \in timers[i] : RedirectTick(i, t)

SpecCard == Init /\ [][\E i \in FlowInst : CardNext(i)]_vars

\* the transfer flow of one widget with fixed props
TransferNext(i) ==
    \/ Mount(i, DefaultProps, DefaultReference)
    \/ \E c \in initCalls, o \in InitOutcomes : Settle(c, o)
    \/ Retry(i)
    \/ Unmount(i)
    \/ Dismiss(i)
    \/ \E tab \in {"card", "transfer"} : TabClick(i, tab)
    \/ GenerateBank(i)
    \/ VerifyTransferClick(i)
    \/ \E resp \in Responses : VerifyResponse(i, resp)
    \/ \E outcome \in BankOutcomes : BankResponse(i, outcome)
    \/ \E t \in timers[i] : SuccessTimerFire(i, t)
    \/ CooldownTick(i)

SpecTransfer == Init /\ [][\E i \in FlowInst : TransferNext(i)]_vars

\* the transfer flow with verifyTransfer called in any state of step 2, as a
\* handler bound at an earlier render can be
TransferCallsNext(i) ==
    \/ Mount(i, DefaultProps, DefaultReference)
    \/ \E c \in initCalls, o \in InitOutcomes : Settle(c, o)
    \/ Retry(i)
    \/ Unmount(i)
    \/ \E tab \in {"card", "transfer"} : TabClick(i, tab)
    \/ GenerateBank(i)
    \/ VerifyTransferCall(i)
    \/ \E resp \in Responses : VerifyResponse(i, resp)
    \/ \E outcome \in BankOutcomes : BankResponse(i, outcome)
    \/ \E t \in timers[i] : SuccessTimerFire(i, t)
    \/ CooldownTick(i)

SpecTransferCalls == Init /\ [][\E i \in FlowInst : TransferCallsNext(i)]_vars

\* both flows of one widget, with the gateway answers that start or stop a
\* timer: success, pending, and a redirect with its URL
TimerPayPlains ==
    { [status |-> "successful", next_action |-> Absent, redirect_url |-> Absent],
      [status |-> "pending", next_action |-> "redirect", redirect_url |-> "https://acs"] }
TimerVerifyPlains ==
    { [status |-> "successful", next_action |-> Absent, redirect_url |-> Absent],
      [status |-> "pending", next_action |-> Absent, redirect_url |-> Absent] }
TimerOutcomes == {o \in InitOutcomes : o.ok /\ o.plain.transaction_id # Absent}

\* the overlay covers the panel while a request is unsettled: pointer input
\* reaches no button under it
Clickable(i) == ~overlay[i]

TimersNext(i) ==
    \/ Mount(i, DefaultProps, DefaultReference)
    \/ \E c \in initCalls, o \in TimerOutcomes : Settle(c, o)
    \/ Unmount(i)
    \/ \E tab \in {"card", "transfer"} : Clickable(i) /\ TabClick(i, tab)
    \/ Clickable(i) /\ Continue(i)
    \/ \E f \in CardForms : Clickable(i) /\ PayNow(i, f)
    \/ Clickable(i) /\ GenerateBank(i)
    \/ Clickable(i) /\ VerifyTransferClick(i)
    \/ \E plain \in TimerPayPlains : PayResponse(i, [ok |-> TRUE, plain |-> plain])
    \/ \E plain \in TimerVerifyPlains : VerifyResponse(i, [ok |-> TRUE, plain |-> plain])
    \/ BankResponse(i, "details")
    \/ \E t \in timers[i] : SuccessTimerFire(i, t)
    \/ \E t \in timers[i] : RedirectTimerFire(i, t)
    \/ \E t \in timers[i] : RedirectTick(i, t)
    \/ CooldownTick(i)

SpecTimers == Init /\ [][\E i \in FlowInst : TimersNext(i)]_vars

\* both flows of one widget whose parent changes the props: every
\* initialization may come back with or without a transaction id
ReinitPayPlains ==
    { [status |-> "pending", next_action |-> "otp", redirect_url |-> Absent] }
ReinitVerifyPlains ==
    { [status |-> "successful", next_action |-> Absent, redirect_url |-> Absent],
      [status |-> "processing", next_action |-> Absent, redirect_url |-> Absent] }

ReinitNext(i) ==
    \/ Mount(i, DefaultProps, DefaultReference)
    \/ \E p \in PropsSet : SetProps(i, p)
    \/ \E c \in initCalls, o \in InitOutcomes : Settle(c, o)
    \/ Retry(i)
    \/ \E tab \in {"card", "transfer"} : TabClick(i, tab)
    \/ Continue(i)
    \/ \E f \in CardForms : PayNow(i, f)
    \/ \E otp \in Otps : TypeOtp(i, otp)
    \/ VerifyOtp(i)
    \/ GenerateBank(i)
    \/ VerifyTransferClick(i)
    \/ \E plain \in ReinitPayPlains : PayResponse(i, [ok |-> TRUE, plain |-> plain])
    \/ \E plain \in ReinitVerifyPlains : OtpResponse(i, [ok |-> TRUE, plain |-> plain])
    \/ \E plain \in ReinitVerifyPlains : VerifyResponse(i, [ok |-> TRUE, plain |-> plain])
    \/ BankResponse(i, "details")
    \/ \E t \in timers[i] : SuccessTimerFire(i, t)

SpecReinit == Init /\ [][\E i \in FlowInst : ReinitNext(i)]_vars

\* the initialization of one widget under every change of its props
InitNext(i) ==
    \/ \E p \in PropsSet, ref \in References : Mount(i, p, ref)
    \/ \E p \in PropsSet : SetProps(i, p)
    \/ \E ref \in ReferenceProps : SetReference(i, ref)
    \/ \E c \in initCalls, o \in InitOutcomesAll : Settle(c, o)
    \/ Retry(i)
    \/ Dismiss(i)
    \/ Unmount(i)

SpecInit == Init /\ [][\E i \in FlowInst : InitNext(i)]_vars

\* ======================================================== properties

\* C1: at most one unsettled /initialize call exists per request signature.
\* Every unsettled call is the cache entry of its signature (so a request
\* made meanwhile finds it and awaits that same call), the cache holds no
\* entry of a settled call (so the next request issues a new one), and every
\* initializing instance awaits an unsettled call of its own signature.
C1_OneCallPerSignature ==
    /\ \A c1, c2 \in initCalls : c1.key = c2.key => c1 = c2
    /\ \A c \in initCalls : initRequestCache[c.key] = c.id
    /\ \A k \in RequestKeys :
          initRequestCache[k] # 0 => [id |-> initRequestCache[k], key |-> k] \in initCalls
    /\ \A w \in waiters : \E c \in initCalls : c.id = w.call
    /\ \A i \in Inst :
          life[i] = "mounted" /\ init[i] = "loading" =>
             \E w \in waiters :
                /\ w.inst = i /\ w.mounted
                /\ [id |-> w.call, key |-> requestKey(props[i], paymentReference[i])] \in initCalls

\* two mounted instances await the same unsettled call
C1_Witness ==
    \E w1, w2 \in waiters :
        w1.inst # w2.inst /\ w1.call = w2.call /\ w1.mounted /\ w2.mounted

\* C4: when an /initialize call settles, an instance whose closures awaiting
\* it were all cleaned up (unmount, or a newer run of the effect) keeps its
\* init status, transaction id and error message.  A step resumes closures
\* exactly when it takes them out of `waiters` as they were.
C4_StaleInitNeverApplied ==
    [][\A i \in Inst :
          ( /\ \E w \in waiters \ waiters' : w.inst = i /\ ~w.mounted
            /\ ~(\E w \in waiters : w.inst = i /\ w.mounted
                      /\ \A x \in waiters' : x.inst = w.inst => x.call # w.call) )
          => /\ init'[i] = init[i]
             /\ transactionId'[i] = transactionId[i]
             /\ errorMsg'[i] = errorMsg[i]]_vars

\* a superseded result arrived at an instance that is initializing again
C4_Witness ==
    \E i \in Inst : last[i] = "init:stale" /\ life[i] = "mounted" /\ init[i] = "loading"

\* C2: a /pay response with no otp/redirect next_action and a status outside
\* {successful, success, confirmed, pending} leaves a failure message, no
\* success message, the card auth sub-state as it was, and arms no timer.
C2_OtherStatusOnlyFails ==
    [][\A i \in FlowInst, resp \in Responses :
          ( /\ PayBranch(resp) = "other"
            /\ life[i] = "mounted"
            /\ PayResponse(i, resp) )
          => /\ errorMsg'[i] # Null
             /\ successMsg'[i] = Null
             /\ cardNextAction'[i] = cardNextAction[i]
             /\ timers'[i] = timers[i]]_vars

\* C3: nothing a response starts after teardown is pending on a torn-down
\* instance, and neither onSuccess nor a navigation runs on it.
C3_LateResultDiscarded ==
    \A i \in FlowInst :
        life[i] = "gone" =>
            /\ \A t \in timers[i] : ~t.late
            /\ last[i] \notin {"onSuccess", "navigate:auto"}

\* C5: while the instance lives, transferVerified never goes from true to false.
C5_VerifiedMonotonic ==
    [][\A i \in FlowInst :
          transferVerified[i] /\ life'[i] = "mounted" => transferVerified'[i]]_vars

\* C6: a running cooldown is only counted down, one second per step, until
\* the transfer is verified, and no /verify request is sent while it is
\* positive; so 60 ticks separate a pending answer from the next request.
C6_CooldownOnlyCountedDown ==
    [][\A i \in FlowInst :
          transferVerifyCooldownSec[i] > 0 /\ life'[i] = "mounted" =>
             /\ inflight'[i]["verify"] <= inflight[i]["verify"]
             /\ \/ transferVerifyCooldownSec'[i] >= transferVerifyCooldownSec[i] - 1
                \/ transferVerified'[i]]_vars

\* C7: a call of verifyTransfer while transferVerified is true or the
\* cooldown is positive sends nothing and changes no cell, ref or timer.
C7_RefusedVerifyIsNoOp ==
    [][\A i \in FlowInst :
          ( /\ transferVerified[i] \/ transferVerifyCooldownSec[i] > 0
            /\ VerifyTransferCall(i) )
          => UNCHANGED <<instVars, flowVars, sharedVars>>]_vars

\* verifyTransfer was called on a verified transfer
C7_Witness ==
    \E i \in FlowInst :
        /\ last[i] = "verifyTransfer:refused"
        /\ transferVerified[i]
        /\ inflight[i]["verify"] = 0

\* C8: at most one success timer is pending per instance, and the payload it
\* will hand to onSuccess is that of a success response.
C8_OneSuccessTimerWithSuccessPayload ==
    \A i \in FlowInst :
        /\ Cardinality({t \in timers[i] : t.kind = "success"}) <= 1
        /\ \A t \in timers[i] : t.kind = "success" => IsSuccessStatus(t.payload.status)

\* C9 as stated: right after a tab click no timer of any of the three kinds
\* is pending and the cooldown interval is not running.
C9_TabSwitchCancelsAllTimers ==
    \A i \in FlowInst :
        last[i] = "tab" => timers[i] = {} /\ ~cooldownTimer[i]

\* C9: a tab click cancels the redirect one-shot and the redirect tick, nulls
\* their refs and zeroes the countdown; the success timer, its ref, the
\* cooldown and its interval are as before the click.
C9_TabSwitchCancelsRedirectTimers ==
    [][\A i \in FlowInst, tab \in {"card", "transfer"} :
          TabClick(i, tab) =>
             /\ \A t \in timers'[i] : t.kind = "success"
             /\ cardRedirectTimerRef'[i] = 0
             /\ cardRedirectCountdownTimerRef'[i] = 0
             /\ cardRedirectCountdownSec'[i] = 0
             /\ {t \in timers'[i] : t.kind = "success"} = {t \in timers[i] : t.kind = "success"}
             /\ successCallbackTimerRef'[i] = successCallbackTimerRef[i]
             /\ transferVerifyCooldownSec'[i] = transferVerifyCooldownSec[i]
             /\ cooldownTimer'[i] = cooldownTimer[i]]_vars

\* after a tab click the success timer is still pending and the cooldown still runs
C9_Witness ==
    \E i \in FlowInst :
        /\ last[i] = "tab"
        /\ \E t \in timers[i] : t.kind = "success"
        /\ cooldownTimer[i]
        /\ transferVerifyCooldownSec[i] > 0

\* C10: on a torn-down instance no timer armed before the teardown is
\* pending and the cooldown interval is not running.
C10_TeardownCancelsPendingTimers ==
    \A i \in FlowInst :
        life[i] = "gone" =>
            /\ \A t \in timers[i] : t.late
            /\ ~cooldownTimer[i]

\* the instance was torn down while its success timer and both redirect
\* timers were pending: the refs still hold their handles
C10_Witness ==
    \E i \in FlowInst :
        /\ last[i] = "unmount"
        /\ successCallbackTimerRef[i] # 0
        /\ cardRedirectTimerRef[i] # 0
        /\ cardRedirectCountdownTimerRef[i] # 0
        /\ timers[i] = {}

\* C11: right after the widget is dismissed with Escape no success timer
\* and no redirect one-shot is pending, so neither fires on the dismissed widget.
C11_DismissCancelsTimers ==
    \A i \in FlowInst :
        last[i] = "dismiss" => \A t \in timers[i] : t.kind \notin {"success", "redirect"}

\* C12: a /pay or /verify-otp answer with next_action "otp" puts the card
\* flow in the otp sub-state and arms no timer, whatever its status; the
\* /pay path also empties the OTP input.
C12_OtpAnswerEntersOtp ==
    [][\A i \in FlowInst, resp \in Responses :
          ( /\ resp.ok
            /\ resp.plain.next_action = "otp"
            /\ life[i] = "mounted" )
          => /\ PayResponse(i, resp) =>
                    /\ cardNextAction'[i] = "otp"
                    /\ cardOtp'[i] = ""
                    /\ timers'[i] = timers[i]
                    /\ successCallbackTimerRef'[i] = successCallbackTimerRef[i]
             /\ OtpResponse(i, resp) =>
                    /\ cardNextAction'[i] = "otp"
                    /\ timers'[i] = timers[i]
                    /\ successCallbackTimerRef'[i] = successCallbackTimerRef[i]]_vars

\* a /pay answer asked for an OTP and the OTP panel is up with no timer pending
C12_Witness ==
    \E i \in FlowInst :
        /\ last[i] = "pay:otp"
        /\ CardStep2Shown(i, "otp")
        /\ cardOtp[i] = ""
        /\ timers[i] = {}

\* C13: a /pay or /verify-otp answer with next_action "redirect" and no URL
\* sets an error, keeps the card auth sub-state and starts no timer; with a
\* URL the flow is in redirect, the countdown is 5 and the one-shot and the
\* tick are pending under their refs.
C13_RedirectNeedsUrl ==
    [][\A i \in FlowInst, resp \in Responses :
          ( /\ resp.ok
            /\ resp.plain.next_action = "redirect"
            /\ life[i] = "mounted"
            /\ PayResponse(i, resp) \/ OtpResponse(i, resp) )
          => IF resp.plain.redirect_url = Absent
             THEN /\ errorMsg'[i] = MsgNoRedirectUrl
                  /\ cardNextAction'[i] = cardNextAction[i]
                  /\ cardRedirectUrl'[i] = cardRedirectUrl[i]
                  /\ cardRedirectCountdownSec'[i] = cardRedirectCountdownSec[i]
                  /\ timers'[i] = timers[i]
                  /\ cardRedirectTimerRef'[i] = cardRedirectTimerRef[i]
                  /\ cardRedirectCountdownTimerRef'[i] = cardRedirectCountdownTimerRef[i]
             ELSE /\ cardNextAction'[i] = "redirect"
                  /\ cardRedirectUrl'[i] = resp.plain.redirect_url
                  /\ cardRedirectCountdownSec'[i] = RedirectSecs
                  /\ \E t \in timers'[i] :
                        /\ t.kind = "redirect"
                        /\ t.id = cardRedirectTimerRef'[i]
                        /\ t.payload.redirect_url = resp.plain.redirect_url
                  /\ \E t \in timers'[i] :
                        t.kind = "countdown" /\ t.id = cardRedirectCountdownTimerRef'[i]]_vars

\* a /verify-otp answer asked for a redirect without a URL: the OTP panel stays
C13_Witness ==
    \E i \in FlowInst :
        /\ last[i] = "otp:nourl"
        /\ CardStep2Shown(i, "otp")
        /\ errorMsg[i] = MsgNoRedirectUrl
        /\ timers[i] = {}

\* C14: once the user has navigated with Redirect Now, the automatic
\* navigation of the same redirect does not run.
C14_ManualNavigationStopsOneShot ==
    [][\A i \in FlowInst :
          last[i] = "navigate:manual" => last'[i] # "navigate:auto"]_vars

\* C15: Back, Cancel Redirect and a tab click leave the card auth sub-state
\* at none with no redirect URL, no success payload, an empty OTP and the
\* countdown at 0, and no redirect one-shot or tick pending.
C15_LeavingAuthResets ==
    [][\A i \in FlowInst :
          ( \/ Back(i)
            \/ CancelRedirect(i)
            \/ \E tab \in {"card", "transfer"} : TabClick(i, tab) )
          => /\ cardNextAction'[i] = "none"
             /\ cardRedirectUrl'[i] = Null
             /\ cardSuccessData'[i] = NoPlain
             /\ cardOtp'[i] = ""
             /\ cardRedirectCountdownSec'[i] = 0
             /\ cardRedirectTimerRef'[i] = 0
             /\ cardRedirectCountdownTimerRef'[i] = 0
             /\ \A t \in timers'[i] : t.kind \notin {"redirect", "countdown"}]_vars

\* a pending redirect was cancelled
C15_Witness ==
    \E i \in FlowInst :
        /\ last[i] = "cancelRedirect"
        /\ cardNextAction[i] = "none"
        /\ cardRedirectTimerRef[i] = 0
        /\ timers[i] = {}

\* C16: every step that sends a /pay request is a click on Pay Now with a
\* card form whose number, expiry, CVV and PIN are all valid, and a click
\* with any other form sends nothing.
C16_PayOnlyWithValidCard ==
    [][\A i \in FlowInst :
          /\ inflight'[i]["pay"] > inflight[i]["pay"] =>
                \E f \in CardForms :
                    f.number /\ f.expiry /\ f.cvv /\ f.pin /\ PayNow(i, f)
          /\ \A f \in CardForms :
                PayNow(i, f) /\ ~(f.number /\ f.expiry /\ f.cvv /\ f.pin) =>
                    inflight'[i] = inflight[i]]_vars

\* a /pay request is on its way
C16_Witness ==
    \E i \in FlowInst : last[i] = "submit:sent" /\ inflight[i]["pay"] > 0

\* C17: with no transaction id, Generate Bank Account, "I have made the
\* transfer" and Verify OTP set the error message and nothing else: no
\* request is sent and every other cell, ref and timer is as before.
C17_NoTransactionIdRejects ==
    [][\A i \in FlowInst :
          ( /\ transactionId[i] = Null
            /\ GenerateBank(i) \/ VerifyTransferClick(i) \/ VerifyOtp(i) )
          => /\ errorMsg'[i] = MsgNoTransaction
             /\ UNCHANGED <<life, props, reference, paymentReference, init, transactionId, successMsg,
                            uiVars, cardVars, transferVars, timerVars, inflight,
                            sharedVars>>]_vars

\* the transfer was to be verified after a re-initialization that brought no
\* transaction id
C17_Witness ==
    \E i \in FlowInst :
        /\ last[i] = "verifyTransfer:refused"
        /\ transactionId[i] = Null
        /\ errorMsg[i] = MsgNoTransaction
        /\ inflight[i]["verify"] = 0

\* a configuration value the initialization depends on differs between two renders
ConfigChanged(i) ==
    \/ props'[i].amount # props[i].amount
    \/ customDataSignature(props'[i]) # customDataSignature(props[i])
    \/ reference'[i] # reference[i]

\* the instance starts awaiting an /initialize call in this step
InitRequested(i) ==
    /\ init'[i] = "loading"
    /\ \E w \in waiters' \ waiters : w.inst = i /\ w.mounted

\* C18: on a mounted instance a change of the amount, of the customData
\* signature or of the reference, and Retry, request an initialization; a
\* re-render that changes none of them requests none; and nothing else
\* takes the instance back to loading.
C18_InitExactlyOnConfigChange ==
    [][\A i \in FlowInst :
          life[i] = "mounted" /\ life'[i] = "mounted" =>
             /\ ConfigChanged(i) \/ Retry(i) => InitRequested(i)
             /\ ~ConfigChanged(i) /\ props'[i] # props[i] =>
                    /\ init'[i] = init[i]
                    /\ waiters' = waiters
                    /\ initCalls' = initCalls
             /\ init'[i] = "loading" /\ init[i] # "loading" =>
                    ConfigChanged(i) \/ Retry(i)]_vars

\* the fields of a body that carry a non-empty value, by their place in the chain
TruthyFields(plain) ==
    {k \in 1..Len(TransactionIdFields) : Truthy(plain[TransactionIdFields[k]])}

\* the value of the first field of the chain that is truthy, null when none is
FirstTruthy(plain) ==
    IF TruthyFields(plain) = {} THEN Null
    ELSE plain[TransactionIdFields[Min(TruthyFields(plain))]]

\* the names in the claimed priority order, each at both depths
ClaimedFields ==
    << "d_transaction_id", "transaction_id", "d_transactionId", "transactionId",
       "d_id", "id", "d_reference", "reference" >>

\* the value of the first field that is present, null when none is; an
\* empty value is no transaction id
FirstPresent(plain) ==
    LET present == {k \in 1..Len(ClaimedFields) : plain[ClaimedFields[k]] # Absent}
    IN  IF present = {} THEN Null
        ELSE Or(plain[ClaimedFields[Min(present)]], Null)

\* /initialize call c succeeds with body o.plain and instance i applies it
InitApplied(i, c, o) ==
    /\ o.ok
    /\ life[i] = "mounted"
    /\ \E w \in waiters : w.inst = i /\ w.call = c.id /\ w.mounted
    /\ Settle(c, o)

\* C19 as stated: the transaction id is the value of the first present field
\* in the order transaction_id, transactionId, id, reference, null when none
\* is present, and the instance is ready.
C19_FirstPresentField ==
    [][\A i \in FlowInst, c \in initCalls, o \in InitOutcomesAll :
          InitApplied(i, c, o) =>
             /\ init'[i] = "success"
             /\ transactionId'[i] = FirstPresent(o.plain)]_vars

\* C19: the transaction id is the value of the first field with a non-empty
\* value in the order data.transaction_id, data.transactionId,
\* transaction_id, transactionId, data.id, id, data.reference, reference,
\* null when there is none, and the instance is ready either way.
C19_FirstTruthyField ==
    [][\A i \in FlowInst, c \in initCalls, o \in InitOutcomesAll :
          InitApplied(i, c, o) =>
             /\ init'[i] = "success"
             /\ transactionId'[i] = FirstTruthy(o.plain)]_vars

\* an initialization succeeded without any transaction id
C19_Witness ==
    \E i \in FlowInst :
        /\ last[i] = "init:applied"
        /\ life[i] = "mounted"
        /\ init[i] = "success"
        /\ transactionId[i] = Null

\* ------------------------------------------------ the retry specification
\* instances of several signatures that fail, are retried and go away; the
\* props of a mounted instance stay as they are
RetryNext ==
    \/ \E i \in Inst, p \in PropsSet, ref \in References : Mount(i, p, ref)
    \/ \E i \in Inst : Retry(i)
    \/ \E c \in initCalls, o \in SharedOutcomes : Settle(c, o)
    \/ \E i \in Inst : Unmount(i)

SpecRetry == Init /\ [][RetryNext]_vars

\* the request key of instance i
KeyOf(i) == requestKey(props[i], paymentReference[i])

\* after a failure the error screen is up with the message of the failure
InitFailedShown(i) ==
    life[i] = "mounted" /\ init[i] = "error" => errorMsg[i] = MsgInitFailed

\* the call instance i awaits succeeds and the instance becomes ready
SuccessMakesReady(i) ==
    \A c \in initCalls, o \in SharedOutcomes :
        ( /\ o.ok
          /\ life[i] = "mounted"
          /\ [inst |-> i, call |-> c.id, mounted |-> TRUE] \in waiters \ waiters'
          /\ c \notin initCalls'
          /\ Settle(c, o) )
        => init'[i] = "success"

\* C20 as stated: a failed instance shows the error, Retry takes it back to
\* loading and issues a new /initialize call, and the success of the call
\* it awaits makes it ready.
C20_RetryIssuesNewCall ==
    [][\A i \in Inst :
          /\ InitFailedShown(i)
          /\ (init[i] = "error" /\ last'[i] = "retry" /\ Retry(i)) =>
                /\ init'[i] = "loading"
                /\ \E c \in initCalls' \ initCalls :
                      c.key = KeyOf(i) /\ [inst |-> i, call |-> c.id, mounted |-> TRUE] \in waiters'
          /\ SuccessMakesReady(i)]_vars

\* C20: a failed instance shows the error; Retry takes it back to loading
\* awaiting an unsettled /initialize call of its signature, which is the
\* cache entry: a new call, unless another instance has one of that
\* signature in flight, which is then shared; and the success of the call it
\* awaits makes it ready.
C20_RetryAwaitsUnsettledCall ==
    [][\A i \in Inst :
          /\ InitFailedShown(i)
          /\ (init[i] = "error" /\ last'[i] = "retry" /\ Retry(i)) =>
                /\ init'[i] = "loading"
                /\ \E c \in initCalls' :
                      /\ c.key = KeyOf(i)
                      /\ initRequestCache'[c.key] = c.id
                      /\ [inst |-> i, call |-> c.id, mounted |-> TRUE] \in waiters'
                      /\ (\A x \in initCalls : x.key # KeyOf(i)) => c \notin initCalls
                      /\ (\E x \in initCalls : x.key = KeyOf(i)) => c \in initCalls
          /\ SuccessMakesReady(i)]_vars

\* Retry was pressed while another instance had a call of the same signature
\* in flight, and both await it
C20_Witness ==
    \E i, j \in Inst, c \in initCalls :
        /\ i # j
        /\ last[i] = "retry"
        /\ init[i] = "loading"
        /\ last[j] = "initPayment"
        /\ [inst |-> i, call |-> c.id, mounted |-> TRUE] \in waiters
        /\ [inst |-> j, call |-> c.id, mounted |-> TRUE] \in waiters

\* the failed answer of a request
Failure == [ok |-> FALSE, plain |-> NoPlain]

\* C21: the failure of an /initialize, /pay, /verify-otp, /bank-details or
\* /verify request of a mounted instance sets the error message and passes
\* the error to onError, once.
C21_EveryFailureReachesOnError ==
    [][\A i \in FlowInst :
          ( /\ life[i] = "mounted"
            /\ \/ init[i] = "loading" /\ init'[i] = "error"
               \/ PayResponse(i, Failure)
               \/ OtpResponse(i, Failure)
               \/ VerifyResponse(i, Failure)
               \/ BankResponse(i, "error") )
          => /\ errorMsg'[i] # Null
             /\ Len(onErrorCalls'[i]) = 1]_vars

\* =================================================== validation functions
\* A string is a sequence of characters.  Every function below is called on
\* its own: the input is drawn at the start, one step applies the function.
widgetVars == <<instVars, flowVars, sharedVars, onErrorCalls, last>>

MaxLuhnLen == 3       \* length of the strings the Luhn check is called with
Digits == {"0", "1", "2", "3", "4", "5", "6", "7", "8", "9"}
LuhnChars == Digits \cup {" ", "x"}

StringsUpTo(chars, n) == UNION {[1..k -> chars] : k \in 0..n}

LuhnExampleValid ==
    <<"4", "5", "3", "2", "0", "1", "5", "1", "1", "2", "8", "3", "0", "3", "6", "6">>
LuhnExampleInvalid ==
    <<"4", "5", "3", "2", "0", "1", "5", "1", "1", "2", "8", "3", "0", "3", "6", "7">>
LuhnInputs == StringsUpTo(LuhnChars, MaxLuhnLen) \cup {LuhnExampleValid, LuhnExampleInvalid}

DigitValue(ch) ==
    CASE ch = "0" -> 0 [] ch = "1" -> 1 [] ch = "2" -> 2 [] ch = "3" -> 3 [] ch = "4" -> 4
      [] ch = "5" -> 5 [] ch = "6" -> 6 [] ch = "7" -> 7 [] ch = "8" -> 8 [] ch = "9" -> 9
\* Number(ch) of a one-character string: a digit is its value, white space
\* is 0, anything else is NaN
Number(ch) == IF ch \in Digits THEN DigitValue(ch) ELSE IF ch = " " THEN 0 ELSE NaN

\* the body of the for loop of isValidLuhn, from index i (1-based) down
RECURSIVE LuhnLoop(_, _, _, _)
LuhnLoop(cardNumber, i, sum, shouldDouble) ==
    IF i < 1 THEN sum % 10 = 0
    ELSE LET digit == Number(cardNumber[i])
             doubled == IF digit * 2 > 9 THEN digit * 2 - 9 ELSE digit * 2
             value == IF shouldDouble THEN doubled ELSE digit
         IN  IF digit = NaN THEN FALSE
             ELSE LuhnLoop(cardNumber, i - 1, sum + value, ~shouldDouble)

isValidLuhn(cardNumber) == LuhnLoop(cardNumber, Len(cardNumber), 0, FALSE)

LuhnCall ==
    /\ output = << >>
    /\ output' = <<isValidLuhn(input)>>
    /\ UNCHANGED <<widgetVars, input>>

LuhnInit == WidgetInit /\ input \in LuhnInputs /\ output = << >>
SpecLuhn == LuhnInit /\ [][LuhnCall]_vars

\* the Luhn sum of a digit string: the k-th digit from the right counts
\* twice, less 9 when that is above 9, for every even k
RECURSIVE LuhnSum(_, _)
LuhnSum(digits, k) ==
    IF k > Len(digits) THEN 0
    ELSE LET d == DigitValue(digits[Len(digits) + 1 - k])
             v == IF k % 2 = 1 THEN d ELSE IF 2 * d > 9 THEN 2 * d - 9 ELSE 2 * d
         IN  v + LuhnSum(digits, k + 1)

AllDigits(str) == \A k \in 1..Len(str) : str[k] \in Digits

\* C22: the Luhn check is true exactly for the strings of decimal digits
\* whose Luhn sum is 0 mod 10; a string with any other character, a space
\* included, gives false.
C22_LuhnIffDigitsAndChecksum ==
    Len(output) = 1 =>
        output[1] = (AllDigits(input) /\ LuhnSum(input, 1) % 10 = 0)

\* ------------------------------------------------------------ card number
\* the k-th character of a string, "" past its end
CharAt(str, k) == IF k <= Len(str) THEN str[k] ELSE ""
Between(ch, lo, hi) == ch \in Digits /\ DigitValue(lo) <= DigitValue(ch) /\ DigitValue(ch) <= DigitValue(hi)
\* str starts with the characters of prefix
StartsWith(str, prefix) ==
    Len(prefix) <= Len(str) /\ \A k \in 1..Len(prefix) : str[k] = prefix[k]

\* detectCardType: the first regular expression that matches decides
detectCardType(cardNumber) ==
    LET c1 == CharAt(cardNumber, 1)
        c2 == CharAt(cardNumber, 2)
        c3 == CharAt(cardNumber, 3)
    IN  IF c1 = "4" THEN [label |-> "Visa", lengths |-> {13, 16, 19}]
        ELSE IF \/ c1 = "5" /\ Between(c2, "1", "5")
                \/ /\ c1 = "2"
                   /\ \/ c2 = "2" /\ Between(c3, "2", "9")
                      \/ Between(c2, "3", "6") /\ c3 \in Digits
                      \/ c2 = "7" /\ c3 \in {"0", "1"}
                      \/ StartsWith(cardNumber, <<"2", "7", "2", "0">>)
             THEN [label |-> "Mastercard", lengths |-> {16}]
        ELSE IF c1 = "3" /\ c2 \in {"4", "7"}
             THEN [label |-> "American Express", lengths |-> {15}]
        ELSE IF \/ StartsWith(cardNumber, <<"6", "0", "1", "1">>)
                \/ StartsWith(cardNumber, <<"6", "5">>)
                \/ c1 = "6" /\ c2 = "4" /\ Between(c3, "4", "9")
                \/ StartsWith(cardNumber, <<"6", "2", "2">>)
             THEN [label |-> "Discover", lengths |-> {16, 19}]
        ELSE IF \E prefix \in { <<"5", "0", "6", "0">>, <<"5", "0", "6", "1">>,
                                <<"5", "0", "7", "8">>, <<"5", "0", "7", "9">>,
                                <<"6", "5", "0", "0">> } : StartsWith(cardNumber, prefix)
             THEN [label |-> "Verve", lengths |-> {16, 18, 19}]
        ELSE [label |-> "Unknown", lengths |-> 12..19]

\* a validity that does not look at the length set of the brand
cardNumberValidAnyLength(cardDigits) ==
    /\ AllDigits(cardDigits) /\ Len(cardDigits) \in 12..19
    /\ isValidLuhn(cardDigits)

\* cardNumberValid: /^\d{12,19}$/, the length set of the brand, Luhn
cardNumberValid(cardDigits) ==
    /\ AllDigits(cardDigits) /\ Len(cardDigits) \in 12..19
    /\ Len(cardDigits) \in detectCardType(cardDigits).lengths
    /\ isValidLuhn(cardDigits)

\* the card numbers typed: a leading group, zeros, and a check digit, of 11 to 20 digits
CardPrefixes ==
    { <<"4">>, <<"5", "1">>, <<"5", "5">>, <<"5", "6">>, <<"5", "0">>,
      <<"2", "2", "2">>, <<"2", "2", "1">>, <<"2", "3">>, <<"2", "6">>,
      <<"2", "7", "0">>, <<"2", "7", "1">>, <<"2", "7", "2", "0">>, <<"2", "7", "2", "1">>,
      <<"3", "4">>, <<"3", "7">>, <<"3", "6">>,
      <<"6", "0", "1", "1">>, <<"6", "0", "1", "0">>, <<"6", "5">>, <<"6", "4", "4">>,
      <<"6", "4", "3">>, <<"6", "2", "2">>,
      <<"5", "0", "6", "0">>, <<"5", "0", "7", "8">>, <<"6", "5", "0", "0">>, <<"9">> }
CardLengths == 11..20
CardInputs ==
    { prefix \o [k \in 1..(n - Len(prefix) - 1) |-> "0"] \o <<check>> :
        prefix \in CardPrefixes, n \in CardLengths, check \in Digits }

CardCall ==
    /\ output = << >>
    /\ output' = << [label |-> detectCardType(input).label, valid |-> cardNumberValid(input)] >>
    /\ UNCHANGED <<widgetVars, input>>

CardInit == WidgetInit /\ input \in CardInputs /\ output = << >>
SpecCardNumber == CardInit /\ [][CardCall]_vars

\* the length set each brand accepts
BrandLengths ==
    [ Visa |-> {13, 16, 19}, Mastercard |-> {16}, Discover |-> {16, 19},
      Verve |-> {16, 18, 19}, Unknown |-> 12..19 ] @@ ("American Express" :> {15})

\* C23: a card number is valid exactly when it passes Luhn and its digit
\* count is in the length set of the brand detected for it; a 12-digit number
\* starting with 4 is Visa and invalid.
C23_ValidIffLuhnAndBrandLength ==
    Len(output) = 1 =>
        /\ output[1].valid =
              ( /\ AllDigits(input) /\ LuhnSum(input, 1) % 10 = 0
                /\ Len(input) \in BrandLengths[output[1].label] )
        /\ Len(input) = 12 /\ input[1] = "4" =>
              output[1].label = "Visa" /\ ~output[1].valid

\* a 12-digit number starting with 4 whose checksum is right was found invalid
C23_Witness ==
    /\ Len(output) = 1
    /\ Len(input) = 12 /\ input[1] = "4"
    /\ LuhnSum(input, 1) % 10 = 0
    /\ output[1] = [label |-> "Visa", valid |-> FALSE]

\* ----------------------------------------------------------------- expiry
\* the number a string of digits denotes
RECURSIVE DigitsValue(_)
DigitsValue(str) ==
    IF str = << >> THEN 0
    ELSE 10 * DigitsValue(SubSeq(str, 1, Len(str) - 1)) + DigitValue(str[Len(str)])

\* the months since year 0 of the first day of a month: new Date(y, m - 1, 1)
\* and CarbonImmutable::create(y, m, 1) are ordered as these are
MonthIndex(year, month) == 12 * year + month

\* isValidExpiry(value) evaluated when the clock reads `now`
isValidExpiry(value, now) ==
    IF ~( /\ Len(value) = 5
          /\ value[3] = "/"
          /\ \A k \in {1, 2, 4, 5} : value[k] \in Digits )
    THEN FALSE
    ELSE LET month == DigitsValue(SubSeq(value, 1, 2))
             year == DigitsValue(SubSeq(value, 4, 5))
         IN  IF month = 0 \/ month < 1 \/ month > 12 THEN FALSE
             ELSE MonthIndex(2000 + year, month) >= MonthIndex(now.year, now.month)

\* explode('/', $expiry)
RECURSIVE explode(_, _)
explode(str, part) ==
    IF str = << >> THEN <<part>>
    ELSE IF Head(str) = "/" THEN <<part>> \o explode(Tail(str), << >>)
    ELSE explode(Tail(str), Append(part, Head(str)))

\* (int) $text: the number its leading digits denote, 0 when it has none
RECURSIVE LeadingDigits(_)
LeadingDigits(str) ==
    IF str = << >> \/ Head(str) \notin Digits THEN << >>
    ELSE <<Head(str)>> \o LeadingDigits(Tail(str))
IntCast(str) == DigitsValue(LeadingDigits(str))

\* what [$month, $year] = explode(...) does when the list has one element:
\* PHP raises "Undefined array key 1", which the framework's error handler
\* throws as an ErrorException; without that handler $year is null
MissingKeyOutcomes == {"ErrorException", "null"}

\* isExpiryNotPast($expiry) evaluated when the clock reads `now`
isExpiryNotPast(expiry, now, missingKey) ==
    LET parts == explode(expiry, << >>)
        monthInt == IntCast(parts[1])
        yearInt == 2000 + (IF Len(parts) >= 2 THEN IntCast(parts[2]) ELSE 0)
    IN  IF Len(parts) < 2 /\ missingKey = "ErrorException" THEN "exception"
        ELSE IF monthInt < 1 \/ monthInt > 12 THEN "past"
        ELSE IF MonthIndex(yearInt, monthInt) >= MonthIndex(now.year, now.month)
             THEN "notPast" ELSE "past"

\* the rule 'regex:/^(0[1-9]|1[0-2])\/\d{2}$/' of card.expiry
ExpiryRulePasses(expiry) ==
    /\ Len(expiry) = 5
    /\ expiry[3] = "/"
    /\ \A k \in {1, 2, 4, 5} : expiry[k] \in Digits
    /\ DigitsValue(SubSeq(expiry, 1, 2)) \in 1..12

\* the expiry part of cardPayment's validation: the rule, then the `after`
\* hook, which runs whether or not the rule passed
cardPaymentExpiry(expiry, now, missingKey) ==
    LET hook == IF expiry # << >> THEN isExpiryNotPast(expiry, now, missingKey) ELSE "notPast"
    IN  IF hook = "exception" THEN "exception"
        ELSE IF ExpiryRulePasses(expiry) /\ hook = "notPast" THEN "accepted"
        ELSE "rejected"

\* what is typed: month text, separator or none, year text
MonthTexts == { <<"0", "0">>, <<"0", "2">>, <<"0", "3">>, <<"0", "4">>, <<"1", "2">>,
                <<"1", "3">>, <<"3">>, <<"a", "b">>, << >> }
YearTexts == { <<"0", "0">>, <<"2", "4">>, <<"2", "5">>, <<"2", "6">>, <<"9", "9">>,
               <<"2", "0", "2", "5">>, <<"5">>, << >> }
Separators == { <<"/">>, << >>, <<"/", "/">> }
ExpiryTexts == {m \o sep \o y : m \in MonthTexts, sep \in Separators, y \in YearTexts}
\* what the clock reads
Nows == [year : {1999, 2025, 2026, 2100}, month : {1, 3, 12}]
ExpiryInputs == [value : ExpiryTexts, now : Nows]

ExpiryCall ==
    /\ output = << >>
    /\ output' = << [by |-> "isValidExpiry",
                     result |-> IF isValidExpiry(input.value, input.now)
                                THEN "accepted" ELSE "rejected"] >>
    /\ UNCHANGED <<widgetVars, input>>

BackendExpiryCall ==
    /\ output = << >>
    /\ \E missingKey \in MissingKeyOutcomes :
          output' = << [by |-> "cardPayment",
                        result |-> cardPaymentExpiry(input.value, input.now, missingKey)] >>
    /\ UNCHANGED <<widgetVars, input>>

ExpiryInit == WidgetInit /\ input \in ExpiryInputs /\ output = << >>
SpecExpiry == ExpiryInit /\ [][ExpiryCall \/ BackendExpiryCall]_vars

\* the text is two digits, a slash, two digits
IsMMYY(value) ==
    /\ Len(value) = 5
    /\ value[3] = "/"
    /\ \A k \in {1, 2, 4, 5} : value[k] \in Digits

\* the expiry MM/YY is accepted at `now`: the month is one of the twelve and
\* the month MM of 2000+YY is the current month or a later one
NotPast(value, now) ==
    LET mm == DigitsValue(SubSeq(value, 1, 2))
        yy == DigitsValue(SubSeq(value, 4, 5))
    IN  /\ mm \in 1..12
        /\ \/ 2000 + yy > now.year
           \/ 2000 + yy = now.year /\ mm >= now.month

\* C24: for an MM/YY text the expiry check accepts exactly when the month is
\* in 1..12 and the first day of that month of 2000+YY is not before the
\* first day of the current month; any other text is rejected, and no call
\* ends in an exception.
C24_ExpiryAcceptedIffNotPast ==
    Len(output) = 1 =>
        output[1].result =
            IF IsMMYY(input.value) /\ NotPast(input.value, input.now)
            THEN "accepted" ELSE "rejected"

\* -------------------------------------------------------------- signature
\* the objects over keys a and b whose values are drawn from vals, in every
\* insertion order
ObjectsOver(vals) ==
    {Obj(<< >>)}
        \cup {Obj(<< <<k, v>> >>) : k \in {1, 2}, v \in vals}
        \cup {Obj(<< <<k, v>>, <<3 - k, w>> >>) : k \in {1, 2}, v \in vals, w \in vals}

SignedLeaves == {Undefined, JsNull, Num(1), Num(NaN)}
\* the payloads signed: flat objects, and the same one level down
SignedPayloads ==
    ObjectsOver(SignedLeaves)
        \cup {Obj(<< <<1, inner>> >>) : inner \in ObjectsOver(SignedLeaves)}
        \cup {Obj(<< <<2, Undefined>>, <<1, inner>> >>) : inner \in ObjectsOver(SignedLeaves)}
SignatureInputs == [a : SignedPayloads, b : SignedPayloads]

SerializeCall ==
    /\ output = << >>
    /\ output' = << [a |-> stableSerialize(input.a), b |-> stableSerialize(input.b)] >>
    /\ UNCHANGED <<widgetVars, input>>

SignatureInit == WidgetInit /\ input \in SignatureInputs /\ output = << >>
SpecSignature == SignatureInit /\ [][SerializeCall]_vars

\* what a payload says: at every depth the set of its keys that carry a defined
\* value, each with what its value says
RECURSIVE Content(_)
Content(value) ==
    IF value.t # "object" THEN [t |-> value.t, n |-> value.n, o |-> {}]
    ELSE [t |-> "object", n |-> 0,
          o |-> { <<value.o[k][1], Content(value.o[k][2])>> :
                    k \in {j \in 1..Len(value.o) : value.o[j][2].t # "undefined"} }]

\* C25: two payloads get the same signature exactly when they have the same
\* keys with the same defined values at every depth, whatever the key order
\* and whatever keys are set to undefined.
C25_SignatureIffSameContent ==
    Len(output) = 1 =>
        ((output[1].a = output[1].b) <=> (Content(input.a) = Content(input.b)))

\* ---------------------------------------------------- the tabs specification
MaxTabsLen == 3
TabNames == {"card", "transfer", "ussd"}
TabsPropsSet ==
    { [DefaultProps EXCEPT !.paymentTabs = tabs, !.defaultTab = tab] :
        tabs \in {NoTabsArray} \cup {TabsArray(items) : items \in StringsUpTo(TabNames, MaxTabsLen)},
        tab \in TabNames \cup {Absent} }

\* one widget under every paymentTabs and defaultTab, and every change of them
TabsNext(i) ==
    \/ \E p \in TabsPropsSet : Mount(i, p, DefaultReference)
    \/ \E p \in TabsPropsSet : SetProps(i, p)
    \/ \E c \in initCalls, o \in SharedOutcomes : Settle(c, o)
    \/ \E tab \in TabNames : TabClick(i, tab)
    \/ Unmount(i)

SpecTabs == Init /\ [][\E i \in FlowInst : TabsNext(i)]_vars

\* the tabs paymentTabs enables: the card and transfer entries of the list,
\* both when there is none
NamedTabs(p) ==
    IF p.paymentTabs.isArray
    THEN {p.paymentTabs.items[k] : k \in 1..Len(p.paymentTabs.items)} \cap {"card", "transfer"}
    ELSE {}
EnabledTabs(p) == IF NamedTabs(p) = {} THEN {"card", "transfer"} ELSE NamedTabs(p)
FirstEnabled(p) ==
    IF NamedTabs(p) = {} THEN "card"
    ELSE LET items == p.paymentTabs.items
             first == CHOOSE k \in 1..Len(items) :
                        /\ items[k] \in NamedTabs(p)
                        /\ \A j \in 1..(k - 1) : items[j] \notin NamedTabs(p)
         IN items[first]

\* C26: after every step the active tab of a mounted widget is one of the
\* enabled tabs (so a change of paymentTabs that disables it moves it to an
\* enabled one), and the tab a widget is mounted with is defaultTab when that
\* is enabled and the first enabled tab otherwise.
C26_ActiveTabEnabled ==
    [][\A i \in Inst :
        life'[i] = "mounted" =>
            /\ active'[i] \in EnabledTabs(props'[i])
            /\ life[i] = "new" =>
                  active'[i] = IF props'[i].defaultTab \in EnabledTabs(props'[i])
                               THEN props'[i].defaultTab
                               ELSE FirstEnabled(props'[i])]_vars

\* a change of paymentTabs has just moved the active tab
C26_Witness ==
    \E i \in Inst :
        /\ life[i] = "mounted"
        /\ last[i] = "activeTab"
        /\ active[i] = "transfer"
        /\ props[i].paymentTabs = TabsArray(<<"ussd", "transfer">>)
        /\ props[i].defaultTab = "card"

\* ------------------------------------------------------- pending answers
\* a response with status "pending" and neither otp nor redirect to follow
PendingResponses ==
    {resp \in Responses :
        resp.ok /\ resp.plain.status = "pending" /\ resp.plain.next_action = Absent}

NoCallbackArmed(i) ==
    /\ timers'[i] = timers[i]
    /\ successCallbackTimerRef'[i] = successCallbackTimerRef[i]

\* C27: a "pending" answer to /pay leaves the card auth sub-state as it is,
\* shows the message and arms no callback; a "pending" answer to /verify-otp
\* puts the flow in otp, shows the message and arms no callback.
C27_PendingAsymmetry ==
    [][\A i \in Inst :
        life[i] = "mounted" =>
            /\ (\E resp \in PendingResponses : PayResponse(i, resp)) =>
                  /\ cardNextAction'[i] = cardNextAction[i]
                  /\ cardStep'[i] = cardStep[i]
                  /\ cardOtp'[i] = cardOtp[i]
                  /\ cardRedirectUrl'[i] = cardRedirectUrl[i]
                  /\ cardSuccessData'[i] = cardSuccessData[i]
                  /\ errorMsg'[i] = MsgPayReceived
                  /\ NoCallbackArmed(i)
            /\ (\E resp \in PendingResponses : OtpResponse(i, resp)) =>
                  /\ cardNextAction'[i] = "otp"
                  /\ cardOtp'[i] = cardOtp[i]
                  /\ errorMsg'[i] = MsgOtpDone
                  /\ NoCallbackArmed(i)]_vars

\* /verify-otp has just answered "pending" and the code can be sent again
C27_Witness ==
    \E i \in Inst :
        /\ last[i] = "otp:pending"
        /\ CardStep2Shown(i, "otp")
        /\ cardOtp[i] # ""
        /\ errorMsg[i] = MsgOtpDone
        /\ successCallbackTimerRef[i] = 0

\* ------------------------------------------------------- success answers
\* a response with a success status and neither otp nor redirect to follow
SuccessResponses ==
    {resp \in Responses :
        /\ resp.ok
        /\ resp.plain.status \in {"successful", "success", "confirmed"}
        /\ resp.plain.next_action \notin {"otp", "redirect"}}

\* C28: a success answer to /pay or /verify-otp puts the card flow in success:
\* no redirect one-shot or tick is left pending and their refs are null, the
\* redirect URL and the typed code are cleared, the answer is the success
\* payload, and the success timer held in the ref carries that answer.
C28_SuccessEntersSuccessState ==
    [][\A i \in Inst : \A resp \in SuccessResponses :
        (life[i] = "mounted" /\ (PayResponse(i, resp) \/ OtpResponse(i, resp))) =>
            /\ cardNextAction'[i] = "success"
            /\ \A t \in timers'[i] : t.kind \notin {"redirect", "countdown"}
            /\ cardRedirectTimerRef'[i] = 0
            /\ cardRedirectCountdownTimerRef'[i] = 0
            /\ cardRedirectUrl'[i] = Null
            /\ cardOtp'[i] = ""
            /\ cardSuccessData'[i] = resp.plain
            /\ \E t \in timers'[i] :
                  /\ t.kind = "success"
                  /\ t.payload = resp.plain
                  /\ t.id = successCallbackTimerRef'[i]]_vars

\* /verify-otp has just answered "confirmed"
C28_Witness ==
    \E i \in Inst :
        /\ life[i] = "mounted"
        /\ last[i] = "otp:success"
        /\ cardNextAction[i] = "success"
        /\ cardSuccessData[i].status = "confirmed"
        /\ cardOtp[i] = ""
        /\ \E t \in timers[i] : t.kind = "success" /\ t.payload = cardSuccessData[i]

\* ------------------------------------------ the requests of one widget
\* The overlay is a sibling element drawn over the panel (L726): the buttons
\* under it are neither disabled nor removed and keep the focus, and submit,
\* verifyCardOtp, proceedBank and verifyTransfer do not look at `overlay`, so
\* a key press on the focused button runs the handler again while a request
\* is unsettled.
MaxOutstanding == MaxInFlight + 1
Start(i, n, op) == InFlightCount(n) <= MaxOutstanding /\ Commit(i, n, op)

InFlightPayPlains ==
    { [status |-> "pending", next_action |-> "otp", redirect_url |-> Absent] }
InFlightOtpPlains ==
    { [status |-> "pending", next_action |-> Absent, redirect_url |-> Absent],
      [status |-> "processing", next_action |-> Absent, redirect_url |-> Absent] }
InFlightVerifyPlains ==
    InFlightOtpPlains
        \cup { [status |-> "successful", next_action |-> Absent, redirect_url |-> Absent],
               [status |-> "confirmed", next_action |-> "otp", redirect_url |-> Absent] }

InFlightNext(i) ==
    \/ Mount(i, DefaultProps, DefaultReference)
    \/ \E c \in initCalls, o \in SharedOutcomes : Settle(c, o)
    \/ \E tab \in {"card", "transfer"} : TabClick(i, tab)
    \/ Continue(i)
    \/ Back(i)
    \/ \E f \in CardForms :
          /\ canSubmitCard(f)
          /\ CardStep2Shown(i, "none")
          /\ Start(i, submit(Cells(i), f), "submit")
    \/ \E otp \in Otps : TypeOtp(i, otp)
    \/ /\ cardOtp[i] # ""
       /\ CardStep2Shown(i, "otp")
       /\ Start(i, verifyCardOtp(Cells(i)), "verifyCardOtp")
    \/ /\ TransferStep1Shown(i)
       /\ Start(i, proceedBank(Cells(i)), "proceedBank")
    \/ /\ ~transferVerified[i]
       /\ transferVerifyCooldownSec[i] = 0
       /\ TransferStep2Shown(i)
       /\ Start(i, verifyTransfer(Cells(i)), "verifyTransfer")
    \/ \E plain \in InFlightPayPlains : PayResponse(i, [ok |-> TRUE, plain |-> plain])
    \/ \E plain \in InFlightOtpPlains : OtpResponse(i, [ok |-> TRUE, plain |-> plain])
    \/ \E plain \in InFlightVerifyPlains : VerifyResponse(i, [ok |-> TRUE, plain |-> plain])
    \/ BankResponse(i, "details")

SpecInFlight == Init /\ [][\E i \in FlowInst : InFlightNext(i)]_vars

\* the unsettled /pay, /verify-otp, /bank-details and /verify requests of instance i
Outstanding(i) ==
    inflight[i]["pay"] + inflight[i]["verify-otp"] + inflight[i]["bank-details"]
        + inflight[i]["verify"]
OutstandingAfter(i) ==
    inflight'[i]["pay"] + inflight'[i]["verify-otp"] + inflight'[i]["bank-details"]
        + inflight'[i]["verify"]

\* C30: while a request of a widget is unsettled, a step in which none of its
\* requests settles starts no request and changes neither the tab nor the
\* step of either flow.
C30_OneRequestAtATime ==
    [][\A i \in Inst :
        (life'[i] = "mounted" /\ Outstanding(i) > 0 /\ OutstandingAfter(i) >= Outstanding(i)) =>
            /\ OutstandingAfter(i) = Outstanding(i)
            /\ active'[i] = active[i]
            /\ cardStep'[i] = cardStep[i]
            /\ transferStep'[i] = transferStep[i]]_vars

\* ---------------------------------------------- transfer verification
\* what an answer of /verify with the given status does to a mounted widget,
\* with verifiedAfterPending the value of verified a "pending" answer leaves
VerifyOutcome(i, resp, verifiedAfterPending) ==
    IF resp.plain.status \in {"successful", "success", "confirmed"}
    THEN /\ transferVerified'[i]
         /\ transferVerifyCooldownSec'[i] = 0
         /\ \E t \in timers'[i] :
               /\ t.kind = "success"
               /\ t.payload = resp.plain
               /\ t.id = successCallbackTimerRef'[i]
    ELSE IF resp.plain.status = "pending"
    THEN /\ transferVerifyCooldownSec'[i] = 60
         /\ transferVerified'[i] = verifiedAfterPending
         /\ errorMsg'[i] # Null
         /\ NoCallbackArmed(i)
    ELSE /\ errorMsg'[i] # Null
         /\ transferVerified'[i] = transferVerified[i]
         /\ transferVerifyCooldownSec'[i] = transferVerifyCooldownSec[i]
         /\ NoCallbackArmed(i)

CardCallsPayPlains ==
    { [status |-> "pending", next_action |-> "otp", redirect_url |-> Absent],
      [status |-> "pending", next_action |-> "redirect", redirect_url |-> "https://acs"],
      [status |-> "successful", next_action |-> Absent, redirect_url |-> Absent] }

\* the card flow with submit("card") called whatever the form holds, as a
\* handler bound at an earlier render can be
CardCallsNext(i) ==
    \/ Mount(i, DefaultProps, DefaultReference)
    \/ \E c \in initCalls, o \in SharedOutcomes : Settle(c, o)
    \/ \E tab \in {"card", "transfer"} : TabClick(i, tab)
    \/ Continue(i)
    \/ Back(i)
    \/ \E f \in CardForms : SubmitCall(i, f)
    \/ \E plain \in CardCallsPayPlains : PayResponse(i, [ok |-> TRUE, plain |-> plain])
    \/ PayResponse(i, Failure)
    \/ CancelRedirect(i)
    \/ \E t \in timers[i] : SuccessTimerFire(i, t)

SpecCardCalls == Init /\ [][\E i \in FlowInst : CardCallsNext(i)]_vars

\* the submission is refused: one of the three checks of submit fails
Refused(f) == ~f.number \/ ~f.expiry \/ ~f.pin

\* C31: a refused card submission shows the message of the first failing
\* check in the order number, expiry, PIN, sends nothing, shows no overlay
\* (the overlay stays as it was, and is off unless a request sent earlier is
\* still unsettled) and leaves the card auth sub-state unchanged.
C31_FirstFailingCheckShown ==
    [][\A i \in Inst : \A f \in CardForms :
        (life[i] = "mounted" /\ Refused(f) /\ SubmitCall(i, f)) =>
            /\ errorMsg'[i] = IF ~f.number THEN MsgBadNumber
                              ELSE IF ~f.expiry THEN MsgBadExpiry
                              ELSE MsgBadPin
            /\ overlay'[i] = overlay[i]
            /\ Outstanding(i) = 0 => ~overlay'[i]
            /\ inflight'[i] = inflight[i]
            /\ cardNextAction'[i] = cardNextAction[i]
            /\ cardSuccessData'[i] = cardSuccessData[i]
            /\ cardRedirectUrl'[i] = cardRedirectUrl[i]
            /\ cardOtp'[i] = cardOtp[i]
            /\ timers'[i] = timers[i]]_vars

\* a submission has just been refused for its PIN, with no overlay
C31_Witness ==
    \E i \in Inst :
        /\ life[i] = "mounted"
        /\ last[i] = "submit:refused"
        /\ errorMsg[i] = MsgBadPin
        /\ ~overlay[i]

\* ------------------------------------------------------- brand detection
\* the five regular expressions of detectCardBrand, each anchored at the start
MatchesVisa(pan) == CharAt(pan, 1) = "4"
MatchesMastercard(pan) ==
    \/ CharAt(pan, 1) = "5" /\ Between(CharAt(pan, 2), "1", "5")
    \/ /\ CharAt(pan, 1) = "2"
       /\ \/ CharAt(pan, 2) = "2" /\ Between(CharAt(pan, 3), "2", "9")
          \/ Between(CharAt(pan, 2), "3", "6") /\ CharAt(pan, 3) \in Digits
          \/ CharAt(pan, 2) = "7" /\ CharAt(pan, 3) \in {"0", "1"}
          \/ StartsWith(pan, <<"2", "7", "2", "0">>)
MatchesAmex(pan) == CharAt(pan, 1) = "3" /\ CharAt(pan, 2) \in {"4", "7"}
MatchesDiscover(pan) ==
    \/ StartsWith(pan, <<"6", "0", "1", "1">>)
    \/ StartsWith(pan, <<"6", "5">>)
    \/ CharAt(pan, 1) = "6" /\ CharAt(pan, 2) = "4" /\ Between(CharAt(pan, 3), "4", "9")
    \/ StartsWith(pan, <<"6", "2", "2">>)
MatchesVerve(pan) ==
    \E prefix \in { <<"5", "0", "6", "0">>, <<"5", "0", "6", "1">>,
                    <<"5", "0", "7", "8">>, <<"5", "0", "7", "9">>,
                    <<"6", "5", "0", "0">> } : StartsWith(pan, prefix)

\* a match that tries verve before discover
detectCardBrandVerveFirst(pan) ==
    IF MatchesVisa(pan) THEN "visa"
    ELSE IF MatchesMastercard(pan) THEN "mastercard"
    ELSE IF MatchesAmex(pan) THEN "amex"
    ELSE IF MatchesVerve(pan) THEN "verve"
    ELSE IF MatchesDiscover(pan) THEN "discover"
    ELSE "unknown"

\* detectCardBrand: match (true), the first arm that is true decides
detectCardBrand(pan) ==
    IF MatchesVisa(pan) THEN "visa"
    ELSE IF MatchesMastercard(pan) THEN "mastercard"
    ELSE IF MatchesAmex(pan) THEN "amex"
    ELSE IF MatchesDiscover(pan) THEN "discover"
    ELSE IF MatchesVerve(pan) THEN "verve"
    ELSE "unknown"

\* every digit string of up to MaxPanLen digits: no rule reads further
MaxPanLen == 4
BrandInputs == StringsUpTo(Digits, MaxPanLen)

\* the widget's detectCardType(input)
BrandCall ==
    /\ output = << >>
    /\ output' = << [by |-> "widget", brand |-> detectCardType(input).label] >>
    /\ UNCHANGED <<widgetVars, input>>

\* the backend's detectCardBrand(input)
BackendBrandCall ==
    /\ output = << >>
    /\ output' = << [by |-> "backend", brand |-> detectCardBrand(input)] >>
    /\ UNCHANGED <<widgetVars, input>>

BrandInit == WidgetInit /\ input \in BrandInputs /\ output = << >>
SpecBrand == BrandInit /\ [][BrandCall \/ BackendBrandCall]_vars

\* the digit strings lo..hi written with the given number of digits
DigitText(n, width) ==
    [k \in 1..width |-> ToString((n \div (10 ^ (width - k))) % 10)]
TextRange(lo, hi, width) == {DigitText(n, width) : n \in lo..hi}

\* the prefix rules in their fixed order
BrandRules ==
    << [brand |-> "visa", prefixes |-> {<<"4">>}],
       [brand |-> "mastercard",
        prefixes |-> TextRange(51, 55, 2) \cup TextRange(222, 229, 3)
                        \cup TextRange(230, 269, 3) \cup TextRange(270, 271, 3)
                        \cup {<<"2", "7", "2", "0">>}],
       [brand |-> "amex", prefixes |-> {<<"3", "4">>, <<"3", "7">>}],
       [brand |-> "discover",
        prefixes |-> {<<"6", "0", "1", "1">>, <<"6", "5">>, <<"6", "2", "2">>}
                        \cup TextRange(644, 649, 3)],
       [brand |-> "verve",
        prefixes |-> {<<"5", "0", "6", "0">>, <<"5", "0", "6", "1">>,
                      <<"5", "0", "7", "8">>, <<"5", "0", "7", "9">>,
                      <<"6", "5", "0", "0">>}] >>

RuleMatches(k, pan) == \E prefix \in BrandRules[k].prefixes : StartsWith(pan, prefix)
FirstMatchingBrand(pan) ==
    IF \A k \in 1..Len(BrandRules) : ~RuleMatches(k, pan) THEN "unknown"
    ELSE BrandRules[CHOOSE k \in 1..Len(BrandRules) :
                        RuleMatches(k, pan) /\ \A j \in 1..(k - 1) : ~RuleMatches(j, pan)].brand

\* the brand a label of the widget stands for
BrandOfLabel ==
    [ Visa |-> "visa", Mastercard |-> "mastercard", Discover |-> "discover",
      Verve |-> "verve", Unknown |-> "unknown" ] @@ ("American Express" :> "amex")
DetectedBrand ==
    IF output[1].by = "widget" THEN BrandOfLabel[output[1].brand] ELSE output[1].brand

\* C32: the widget and the backend both return the brand of the first
\* matching prefix rule in the order visa, mastercard, amex, discover, verve,
\* else unknown; a number starting with 6500 is discover and never verve, and
\* one starting with 5060, 5061, 5078 or 5079 is verve.
C32_FirstMatchingRuleWins ==
    Len(output) = 1 =>
        /\ DetectedBrand = FirstMatchingBrand(input)
        /\ StartsWith(input, <<"6", "5", "0", "0">>) => DetectedBrand = "discover"
        /\ (\E prefix \in TextRange(5060, 5061, 4) \cup TextRange(5078, 5079, 4) :
                StartsWith(input, prefix)) => DetectedBrand = "verve"

\* the backend has classified a number starting with 6500
C32_Witness ==
    /\ Len(output) = 1
    /\ output[1].by = "backend"
    /\ StartsWith(input, <<"6", "5", "0", "0">>)
    /\ output[1].brand = "discover"

\* ------------------------------------------------------- redirect timers
\* the two redirect handles are both set or both null, a pending one-shot
\* has its tick pending beside it, and the countdown shown is within 0..5
RedirectPaired(i) ==
    /\ (cardRedirectTimerRef[i] = 0) <=> (cardRedirectCountdownTimerRef[i] = 0)
    /\ (\E t \in timers[i] : t.kind = "redirect") =>
            \E t \in timers[i] : t.kind = "countdown"
    /\ cardRedirectCountdownSec[i] \in 0..5

\* C33: in every reachable state the redirect one-shot handle and the tick
\* handle are both set or both null and the countdown is within 0..5; a tick
\* takes exactly 1 off a positive countdown and leaves 0 at 0.
C33_RedirectTimersPaired ==
    [][\A i \in Inst :
        /\ RedirectPaired(i)
        /\ RedirectPaired(i)'
        /\ \A t \in timers[i] :
              (life[i] = "mounted" /\ RedirectTick(i, t)) =>
                  cardRedirectCountdownSec'[i] =
                      IF cardRedirectCountdownSec[i] > 0
                      THEN cardRedirectCountdownSec[i] - 1 ELSE 0]_vars

\* the countdown has been ticked down from 5 to 3 with both timers pending
C33_Witness ==
    \E i \in Inst :
        /\ last[i] = "redirectTick"
        /\ cardRedirectCountdownSec[i] = 3
        /\ cardRedirectTimerRef[i] # 0
        /\ cardRedirectCountdownTimerRef[i] # 0
        /\ \E t \in timers[i] : t.kind = "redirect"

\* ------------------------------------------------------ the dedup cache
\* the cache holds, for every signature, the unsettled call for it and
\* nothing else
CacheExact ==
    /\ \A c \in initCalls : initRequestCache[c.key] = c.id
    /\ \A key \in DOMAIN initRequestCache :
          initRequestCache[key] # 0 => \E c \in initCalls : c.key = key

\* C34: the cache holds an entry for a signature exactly while a call for it
\* is unsettled (so it is empty when none is); an entry goes only in the step
\* in which its own call settles, and in that step it is gone when the
\* awaiting instances take the result.
C34_CacheEntryWhileUnsettled ==
    /\ []CacheExact
    /\ [][\A c \in initCalls :
             /\ initRequestCache'[c.key] # c.id => c \notin initCalls'
             /\ c \notin initCalls' =>
                   /\ initRequestCache'[c.key] = 0
                   /\ \A w \in waiters : w.call = c.id => w \notin waiters']_vars

\* a call has just settled and its instance has taken the result, while the
\* call for another signature is still cached
C34_Witness ==
    /\ \E i \in Inst : last[i] = "init:applied" /\ initRequestCache[KeyOf(i)] = 0
    /\ \E c \in initCalls : initRequestCache[c.key] = c.id

\* ------------------------------------------------- the cooldown, ticking
\* both flows of one widget with the answers that start the cooldown and the
\* redirect timers; the interval of the cooldown effect fires every second
\* while it is set, so its callback is taken under weak fairness
CooldownNext(i) ==
    \/ Mount(i, DefaultProps, DefaultReference)
    \/ \E c \in initCalls, o \in TimerOutcomes : Settle(c, o)
    \/ Unmount(i)
    \/ \E tab \in {"card", "transfer"} : TabClick(i, tab)
    \/ Continue(i)
    \/ \E f \in CardForms : PayNow(i, f)
    \/ GenerateBank(i)
    \/ VerifyTransferCall(i)
    \/ \E plain \in {p \in TimerPayPlains : p.next_action = "redirect"} :
            PayResponse(i, [ok |-> TRUE, plain |-> plain])
    \/ \E plain \in TimerVerifyPlains : VerifyResponse(i, [ok |-> TRUE, plain |-> plain])
    \/ BankResponse(i, "details")
    \/ \E t \in timers[i] : RedirectTick(i, t)
    \/ CooldownTick(i)

SpecCooldown ==
    /\ Init
    /\ [][\E i \in FlowInst : CooldownNext(i)]_vars
    /\ \A i \in FlowInst : WF_vars(CooldownTick(i))

\* C35: while the widget stays mounted a cooldown of 60 reaches 0; it is
\* always within 0..60; its tick leaves the redirect timers and their
\* countdown alone and their tick leaves the cooldown alone; at 0, with the
\* transfer unverified and a transaction id, verifyTransfer posts /verify.
C35_CooldownRunsOut ==
    /\ \A i \in FlowInst :
          transferVerifyCooldownSec[i] = CooldownSecs
             ~> (transferVerifyCooldownSec[i] = 0 \/ life[i] # "mounted")
    /\ [](\A i \in FlowInst : transferVerifyCooldownSec[i] \in 0..CooldownSecs)
    /\ [][\A i \in FlowInst :
            /\ CooldownTick(i) =>
                  /\ transferVerifyCooldownSec'[i] = transferVerifyCooldownSec[i] - 1
                  /\ UNCHANGED <<timers, cardRedirectCountdownSec, cardRedirectUrl,
                                 cardRedirectTimerRef, cardRedirectCountdownTimerRef>>
            /\ (\E t \in timers[i] : RedirectTick(i, t)) =>
                  UNCHANGED <<transferVerifyCooldownSec, cooldownTimer>>
            /\ ( /\ transferVerifyCooldownSec[i] = 0
                 /\ ~transferVerified[i]
                 /\ transactionId[i] # Null
                 /\ VerifyTransferCall(i) )
               => inflight'[i]["verify"] = inflight[i]["verify"] + 1]_vars

\* a cooldown has run out beside an armed redirect countdown, and the
\* transfer can be verified again
C35_Witness ==
    \E i \in FlowInst :
        /\ last[i] = "cooldownTick"
        /\ transferVerifyCooldownSec[i] = 0
        /\ ~cooldownTimer[i]
        /\ \E t \in timers[i] : t.kind = "countdown"
        /\ ~transferVerified[i]
        /\ transactionId[i] # Null

\* ------------------------------------------- initialization, call settling
\* two widgets sharing the cache, where every /initialize call that was
\* posted is answered or fails: each call settles under weak fairness
SettlingCalls == [id : CallIds, key : RequestKeys]
SettlingInst == {i \in Inst : i <= 2}

SettlingNext ==
    \/ \E i \in SettlingInst, p \in PropsSet, ref \in References : Mount(i, p, ref)
    \/ \E i \in SettlingInst, p \in PropsSet : SetProps(i, p)
    \/ \E i \in SettlingInst : Retry(i)
    \/ \E c \in initCalls, o \in SharedOutcomes : Settle(c, o)
    \/ \E i \in SettlingInst : Unmount(i)

SpecSettling ==
    /\ Init
    /\ [][SettlingNext]_vars
    /\ \A c \in SettlingCalls : WF_vars(\E o \in SharedOutcomes : Settle(c, o))

\* C36: a mounted widget that is loading gets to success, or to error with
\* the message of the failure, unless it is unmounted or its configuration
\* changes first; from loading its next status is success or error, and no
\* step but the unmount takes a widget back to idle.
C36_InitializationEnds ==
    /\ \A i \in Inst, p \in PropsSet :
          (life[i] = "mounted" /\ init[i] = "loading" /\ props[i] = p)
             ~> \/ life[i] = "mounted" /\ init[i] = "success"
                \/ life[i] = "mounted" /\ init[i] = "error" /\ errorMsg[i] = MsgInitFailed
                \/ life[i] # "mounted"
                \/ props[i] # p
    /\ [][\A i \in Inst :
            /\ init[i] = "loading" /\ life'[i] = "mounted" =>
                  /\ init'[i] \in {"loading", "success", "error"}
                  /\ init'[i] = "error" => errorMsg'[i] = MsgInitFailed
                  /\ init'[i] = "loading" /\ props'[i] = props[i] =>
                        \E w \in waiters' : w.inst = i /\ w.mounted
            /\ init[i] # "idle" /\ life'[i] = "mounted" => init'[i] # "idle"]_vars

\* both outcomes, after a wait: one widget has left loading with the failure
\* shown, another has left it for success
C36_Witness ==
    \E i, j \in Inst :
        /\ last[i] = "init:applied" /\ init[i] = "error" /\ errorMsg[i] = MsgInitFailed
        /\ last[j] = "init:applied" /\ init[j] = "success"

\* ----------------------------------------- redirect timers and sub-state
\* the card flow with gateway answers asking for an OTP or for a redirect,
\* where Pay Now can be activated again before the answer is in
RedirectPayPlains ==
    { [status |-> "pending", next_action |-> "otp", redirect_url |-> Absent],
      [status |-> "pending", next_action |-> "redirect", redirect_url |-> "https://acs"] }

RedirectNext(i) ==
    \/ Mount(i, DefaultProps, DefaultReference)
    \/ \E c \in initCalls, o \in TimerOutcomes : Settle(c, o)
    \/ Continue(i)
    \/ Back(i)
    \/ \E f \in CardForms :
          /\ canSubmitCard(f)
          /\ CardStep2Shown(i, "none")
          /\ Start(i, submit(Cells(i), f), "submit")
    \/ \E plain \in RedirectPayPlains : PayResponse(i, [ok |-> TRUE, plain |-> plain])
    \/ RedirectNow(i)
    \/ CancelRedirect(i)
    \/ \E t \in timers[i] : RedirectTimerFire(i, t)
    \/ \E t \in timers[i] : RedirectTick(i, t)

SpecRedirect == Init /\ [][\E i \in FlowInst : RedirectNext(i)]_vars

RedirectArmed(i) == \E t \in timers[i] : t.kind \in {"redirect", "countdown"}

\* C37: on a mounted widget a redirect timer is armed only while
\* cardNextAction is "redirect" and cardRedirectUrl is set.
C37_RedirectTimersOnlyInRedirect ==
    \A i \in FlowInst :
        life[i] = "mounted" /\ RedirectArmed(i) =>
            cardNextAction[i] = "redirect" /\ cardRedirectUrl[i] # Null

\* C38: on a mounted widget cardNextAction is other than "none" only on the
\* card tab at step 2.
C38_SubStateOnlyAtStepTwo ==
    \A i \in FlowInst :
        life[i] = "mounted" /\ cardNextAction[i] # "none" =>
            active[i] = "card" /\ cardStep[i] = 2

\* C39: a /pay request is posted only by a widget that has a transaction id.
C39_PayCarriesTransactionId ==
    [][\A i \in FlowInst :
          inflight'[i]["pay"] > inflight[i]["pay"] => transactionId[i] # Null]_vars

\* ------------------------------------------------ requests and readiness
\* both flows of one widget whose props change, with the Escape key and
\* with gateway answers that end no flow
GatingNext(i) ==
    \/ Mount(i, DefaultProps, DefaultReference)
    \/ \E p \in PropsSet : SetProps(i, p)
    \/ \E c \in initCalls, o \in SharedOutcomes : Settle(c, o)
    \/ Retry(i)
    \/ Dismiss(i)
    \/ \E tab \in {"card", "transfer"} : TabClick(i, tab)
    \/ Continue(i)
    \/ \E f \in CardForms : PayNow(i, f)
    \/ \E otp \in Otps : TypeOtp(i, otp)
    \/ VerifyOtp(i)
    \/ GenerateBank(i)
    \/ VerifyTransferClick(i)
    \/ \E plain \in ReinitPayPlains : PayResponse(i, [ok |-> TRUE, plain |-> plain])
    \/ \E plain \in InFlightOtpPlains : OtpResponse(i, [ok |-> TRUE, plain |-> plain])
    \/ \E plain \in InFlightOtpPlains : VerifyResponse(i, [ok |-> TRUE, plain |-> plain])
    \/ BankResponse(i, "details")

SpecGating == Init /\ [][\E i \in FlowInst : GatingNext(i)]_vars

\* C40: a /pay, /verify-otp, /bank-details or /verify request is started
\* only by a mounted widget whose init status is success and that is not
\* dismissed.
C40_RequestsOnlyWhenReady ==
    [][\A i \in FlowInst : \A kind \in DOMAIN inflight[i] :
          inflight'[i][kind] > inflight[i][kind] =>
              life[i] = "mounted" /\ init[i] = "success" /\ ~isDismissed[i]]_vars

\* a widget with a request under way is initializing again after a change
\* of configuration
C40_Witness ==
    \E i \in FlowInst :
        /\ init[i] = "loading"
        /\ last[i] = "initPayment"
        /\ inflight[i]["pay"] = 1
        /\ cardStep[i] = 2

====
